---- MODULE Spec2Model ----
(***************************************************************************)
(* A model of nextjs-handler-middleware: createMiddleware, mergeMiddleware,*)
(* stackMiddleware, chainMiddleware and createHandler, together with the   *)
(* run-time behaviour of the handlers they produce.                        *)
(*                                                                         *)
(* Function values are records: a middleware made by createMiddleware is a *)
(* closure over its callback, a merged middleware a closure over a and b,  *)
(* a composite an object with kind, add and the captured middlewareA.      *)
(* Invoking a handler creates a frame (an activation of a function); the   *)
(* JavaScript thread runs the frames of `stack` synchronously, an await    *)
(* suspends a frame and lets its caller go on, and a suspended frame is    *)
(* resumed only when the stack is empty.                                   *)
(***************************************************************************)
EXTENDS Integers, Sequences, FiniteSets, TLC

VARIABLES
    cbKind,      \* the body of each user callback
    hKind,       \* the body of each terminal handler
    composites,  \* the stack/chain composite objects created so far
    made,        \* history: the composing and registering calls made so far
    config,      \* createHandler's config.middleware, per dispatcher
    reg,         \* _post, _get, _patch, _put, _delete, per dispatcher
    frames,      \* every function activation started so far
    stack,       \* the synchronous call stack (indices into frames)
    root,        \* per request: the frame of the outermost invocation
    via,         \* history: what handler a request was given, after how many calls
    req,         \* per request: the request object
    res,         \* per request: what was written to the response object
    log          \* per request: the events user code recorded

vars == <<cbKind, hKind, composites, made, config, reg, frames, stack, root, via, req, res, log>>

(***************************** bounds **************************************)

MaxFrames == 15
MaxComposites == 3
MaxRegistrations == 2

\* A scenario has two requests, as tests/create.test.ts (two mocks through
\* one handler); they are numbered in the order they arrive.
Requests == {1, 2}
Callbacks == {"A", "B", "C"}
Handlers == {"H", "G"}
Dispatchers == {"D"}
\* The value undefined, where a function may stand.
Undefined == [t |-> "undefined"]

(*************************** user code *************************************)

\* One statement of user code.
I(op, arg, to) == [op |-> op, arg |-> arg, to |-> to]

\* async (req, res, next) => { await next(); order.push("... ran"); }
AwaitCallback ==
    << I("ev", "pre", 0), I("set", "", 0), I("next", "await", 0), I("ev", "post", 0) >>

\* (req, res, next) => { req.foo = "bar"; next(); }
FireCallback ==
    << I("ev", "pre", 0), I("set", "", 0), I("next", "fire", 0), I("ev", "post", 0) >>

\* if (!user) { res.status(401).send(...); return; }
ShortCallback ==
    << I("ev", "pre", 0), I("write", 401, 0) >>

\* const user = await getUserFromCookie(req.cookies); req.user = user; await next();
IoAwaitCallback ==
    << I("io", "", 0), I("ev", "pre", 0), I("set", "", 0), I("next", "await", 0),
       I("ev", "post", 0) >>

\* try { await next(); log("succeeded") } catch (e) { res.status(500).send(...) }
TryCallback ==
    << I("ev", "pre", 0), I("set", "", 0), I("next", "try", 6), I("ev", "post", 0),
       I("jmp", "", 8), I("write", 500, 0), I("ev", "catch", 0) >>

\* A callback that raises before calling next().
ThrowCallback ==
    << I("ev", "pre", 0), I("throw", "", 0) >>

\* A callback that calls next() twice, awaiting each call.
TwiceCallback ==
    << I("ev", "pre", 0), I("next", "await", 0), I("next", "await", 0), I("ev", "post", 0) >>

\* A callback that never calls next() and never completes.
HangCallback ==
    << I("ev", "pre", 0), I("hang", "", 0) >>

\* (req, res, next) => { req.foo = "bar"; return next(); }
ReturnNextCallback ==
    << I("ev", "pre", 0), I("set", "", 0), I("next", "return", 0) >>

\* async (req, res, next) => { if (req.method === "POST") await never;
\*                             req.foo = "bar"; await next(); }
\* where never is a promise that nothing settles.
HangIfCallback ==
    << I("ev", "pre", 0), I("hangif", "POST", 0), I("set", "", 0),
       I("next", "await", 0), I("ev", "post", 0) >>

CallbackKinds ==
    {"await", "fire", "short", "ioawait", "try", "throw", "twice", "hang"}

CallbackBody(k) ==
    CASE k = "await" -> AwaitCallback
      [] k = "fire" -> FireCallback
      [] k = "short" -> ShortCallback
      [] k = "ioawait" -> IoAwaitCallback
      [] k = "try" -> TryCallback
      [] k = "throw" -> ThrowCallback
      [] k = "twice" -> TwiceCallback
      [] k = "hang" -> HangCallback
      [] k = "return" -> ReturnNextCallback
      [] k = "hangif" -> HangIfCallback

\* (req, res) => { res.status(200).send("OK"); }
SyncHandler == << I("ev", "run", 0), I("write", 200, 0) >>

\* async (req, res) => { const x = await update(...); res.status(200).send(x); }
AsyncHandler == << I("ev", "run", 0), I("io", "", 0), I("write", 200, 0) >>

\* A plain function that raises.
SyncThrowHandler == << I("ev", "run", 0), I("throw", "", 0) >>

\* An async function that raises after a suspension.
AsyncThrowHandler == << I("ev", "run", 0), I("io", "", 0), I("throw", "", 0) >>

\* (req, res) => { res.status(200).send("OK"); return "done"; }
ValueHandler == << I("ev", "run", 0), I("write", 200, 0), I("ret", "done", 0) >>

\* async (req, res) => { await update(...); res.status(200).send("OK"); return "done"; }
AsyncValueHandler ==
    << I("ev", "run", 0), I("io", "", 0), I("write", 200, 0), I("ret", "done", 0) >>

HandlerKinds == {"sync", "async", "syncThrow", "asyncThrow"}

HandlerBody(k) ==
    CASE k = "sync" -> SyncHandler
      [] k = "async" -> AsyncHandler
      [] k = "syncThrow" -> SyncThrowHandler
      [] k = "asyncThrow" -> AsyncThrowHandler
      [] k = "value" -> ValueHandler
      [] k = "asyncValue" -> AsyncValueHandler

(************************** composition ************************************)

\* A terminal handler, as a value.
Handler(id) == [t |-> "handler", id |-> id]

\* createMiddleware(callback): the function `middleware`, closed over callback.
createMiddleware(cb) == [t |-> "middleware", callback |-> cb]

\* middleware(handler): the function `middlewareHandler`, closed over
\* callback and handler.
middleware(cb, handler) ==
    [t |-> "middlewareHandler", callback |-> cb, handler |-> handler]

mergeMiddlewareSwapped(a, b) == [t |-> "merged", a |-> b, b |-> a]

\* mergeMiddleware(a, b): the function (handler) => a(b(handler)), closed
\* over a and b.
mergeMiddleware(a, b) == [t |-> "merged", a |-> a, b |-> b]

\* stackMiddleware(middlewareA): the function stackedMiddleware, closed over
\* middlewareA, with its property kind; its property add is StackAdd.
stackMiddleware(middlewareA) ==
    [t |-> "composite", fn |-> "stackedMiddleware", kind |-> "stack",
     middlewareA |-> middlewareA]

\* chainMiddleware(middlewareA): the function chainedMiddleware, closed over
\* middlewareA, with its property kind; its property add is ChainAdd.
chainMiddleware(middlewareA) ==
    [t |-> "composite", fn |-> "chainedMiddleware", kind |-> "chain",
     middlewareA |-> middlewareA]

StackAddOutermost(x, middlewareB) ==
    stackMiddleware(mergeMiddleware(middlewareB, x.middlewareA))

\* stackedMiddleware.add(middlewareB)
StackAdd(x, middlewareB) ==
    stackMiddleware(mergeMiddleware(x.middlewareA, middlewareB))

ChainAddInnermost(x, middlewareB) ==
    chainMiddleware(mergeMiddleware(x.middlewareA, middlewareB))

\* chainedMiddleware.add(middlewareB)
ChainAdd(x, middlewareB) ==
    chainMiddleware(mergeMiddleware(middlewareB, x.middlewareA))

AddByKind(x, middlewareB) ==
    IF x.kind = "stack" THEN StackAdd(x, middlewareB) ELSE ChainAdd(x, middlewareB)

\* x.add(middlewareB): the add of a stackedMiddleware is the closure made at
\* combine.ts:36, that of a chainedMiddleware the one made at combine.ts:53.
Add(x, middlewareB) ==
    IF x.fn = "stackedMiddleware"
    THEN StackAdd(x, middlewareB) ELSE ChainAdd(x, middlewareB)

RECURSIVE Apply(_, _)

mergedLeftNestLast(m, handler) ==
    IF m.a.t = "merged"
    THEN Apply(m.b, Apply(m.a, handler))
    ELSE Apply(m.a, Apply(m.b, handler))

mergedInnerFirst(m, handler) == Apply(m.b, Apply(m.a, handler))

\* The function mergeMiddleware returned, applied: a(b(handler)).
merged(m, handler) == Apply(m.a, Apply(m.b, handler))

stackedMiddlewareIdentity(m, handler) == handler

\* stackedMiddleware(handler): middlewareA(handler)
stackedMiddleware(m, handler) == Apply(m.middlewareA, handler)

\* chainedMiddleware(handler): middlewareA(handler)
chainedMiddleware(m, handler) == Apply(m.middlewareA, handler)

\* m(handler) for any middleware value m: the handler it returns.
Apply(m, handler) ==
    CASE m.t = "middleware" -> middleware(m.callback, handler)
      [] m.t = "merged" -> merged(m, handler)
      [] m.t = "composite" /\ m.fn = "stackedMiddleware" -> stackedMiddleware(m, handler)
      [] m.t = "composite" /\ m.fn = "chainedMiddleware" -> chainedMiddleware(m, handler)

(**************************** frames ***************************************)

\* An activation of handler value h for request r; caller is the frame that
\* called it (0: the host) and site the statement the call was made from;
\* val is the value its body has to return and, once it has returned, the
\* value of the invocation.
NewFrame(h, r, caller, site) ==
    [h |-> h, req |-> r, pc |-> 1, st |-> "run", on |-> 0,
     caller |-> caller, site |-> site, callee |-> 0, val |-> "undefined"]

RaiseCaught(F) == [F EXCEPT !.st = "ok", !.callee = 0, !.on = 0]

\* A raise that no user try/catch encloses ends the invocation as failed:
\* middlewareHandler has no try/catch of its own.
Raise(F) == [F EXCEPT !.st = "err", !.callee = 0, !.on = 0]

nextReturnsNothing(g) == 0

\* What next() hands to the callback: the wrapped handler's own result, the
\* promise of invocation g.
nextReturn(g) == g

middlewareHandlerReturnsNothing(v) == "undefined"

\* return await callback(req, res, next): the invocation's value is the
\* value v the callback produced, as it is.
middlewareHandlerReturn(v) == v

\* The value a completed body gives the invocation of h.
ReturnValue(h, v) ==
    IF h.t = "middlewareHandler" THEN middlewareHandlerReturn(v) ELSE v

\* The value of what next() handed back (0: nothing to wait for).
Awaited(g) == IF g = 0 THEN "undefined" ELSE frames[g].val

middlewareHandlerThenHandler(cb) ==
    CallbackBody(cbKind[cb]) \o << I("next", "await", 0) >>

\* async function middlewareHandler(req, res): return await callback(req, res, next)
middlewareHandler(cb) == CallbackBody(cbKind[cb])

BodyDispatchTwice(h) ==
    CASE h.t = "middlewareHandler" -> middlewareHandler(h.callback)
      [] h.t = "handler" -> HandlerBody(hKind[h.id])
      [] h.t = "dispatcher" -> << I("dispatch", "fire", 0), I("dispatch", "fire", 0) >>

BodyMarksWrapped(h) ==
    CASE h.t = "middlewareHandler" -> middlewareHandler(h.callback)
      [] h.t = "handler" ->
            IF \E d \in DOMAIN reg : \E k \in DOMAIN reg[d] :
                    reg[d][k].t = "middlewareHandler" /\ reg[d][k].handler = h
            THEN << I("ev", "pre", 0) >> \o HandlerBody(hKind[h.id])
            ELSE HandlerBody(hKind[h.id])
      [] h.t = "dispatcher" -> << I("dispatch", "fire", 0) >>

\* The statements a frame of handler value h runs.
Body(h) ==
    CASE h.t = "middlewareHandler" -> middlewareHandler(h.callback)
      [] h.t = "handler" -> HandlerBody(hKind[h.id])
      [] h.t = "dispatcher" -> << I("dispatch", "fire", 0) >>

\* Whether calling h returns a promise (an async function) or a plain value.
IsAsync(h) ==
    \/ h.t \in {"middlewareHandler", "dispatcher"}
    \/ h.t = "handler" /\ hKind[h.id] \in {"async", "asyncThrow", "asyncValue"}

\* Who wrote an event or a response: the callback or the handler of a frame.
Who(h) ==
    CASE h.t = "middlewareHandler" -> h.callback
      [] h.t = "handler" -> h.id
      [] h.t = "dispatcher" -> h.id

Settled(f) == frames[f].st \in {"ok", "err"}

Top == stack[Len(stack)]
Pop == SubSeq(stack, 1, Len(stack) - 1)

\* The statement the frame is at, or a return once the body is over.
At(F) ==
    IF F.pc <= Len(Body(F.h)) THEN Body(F.h)[F.pc] ELSE I("return", "", 0)

(**************************** actions **************************************)

\* The host (or a test) calls handler(req, res) for a request not yet served.
\* For the history: x is the composite h was made from (0: none) and c the
\* name of the composition ("": none).
Invoke(r, h, x, c) ==
    /\ stack = <<>>
    /\ root[r] = 0
    /\ \A q \in Requests : q < r => root[q] # 0
    /\ Len(frames) < MaxFrames
    /\ frames' = Append(frames, NewFrame(h, r, 0, 0))
    /\ stack' = << Len(frames) + 1 >>
    /\ root' = [root EXCEPT ![r] = Len(frames) + 1]
    /\ via' = [via EXCEPT ![r] = [x |-> x, c |-> c, n |-> Len(made)]]
    /\ UNCHANGED <<cbKind, hKind, composites, made, config, reg, req, res, log>>

SetFieldOnCopy(rq, r, name) == rq

\* req.foo = "bar": the callback assigns a field of the request object it
\* was given, which is the object of request r itself.
SetField(rq, r, name) == [rq EXCEPT ![r].attrs = @ \cup {name}]

\* The running function executes one statement of user code.
UserStep ==
    /\ stack # <<>>
    /\ LET f == Top
           F == frames[f]
           ins == At(F)
           r == F.req
       IN /\ F.callee = 0
          /\ ins.op \in {"ev", "set", "write", "jmp", "throw", "io", "hang", "ret", "hangif"}
          /\ frames' = [frames EXCEPT ![f] =
                CASE ins.op \in {"ev", "set", "write"} -> [F EXCEPT !.pc = F.pc + 1]
                  [] ins.op = "jmp" -> [F EXCEPT !.pc = ins.to]
                  [] ins.op = "ret" -> [F EXCEPT !.val = ins.arg,
                                                 !.pc = Len(Body(F.h)) + 1]
                  [] ins.op = "throw" -> Raise(F)
                  [] ins.op = "io" -> [F EXCEPT !.st = "io"]
                  [] ins.op = "hang" -> [F EXCEPT !.st = "hang"]
                  [] ins.op = "hangif" ->
                        IF req[r].method = ins.arg
                        THEN [F EXCEPT !.st = "hang"]
                        ELSE [F EXCEPT !.pc = F.pc + 1]]
          /\ stack' = IF frames'[f].st = "run" THEN stack ELSE Pop
          /\ log' = IF ins.op = "ev"
                    THEN [log EXCEPT ![r] = Append(@,
                            [who |-> Who(F.h), tag |-> ins.arg, attrs |-> req[r].attrs])]
                    ELSE log
          /\ req' = IF ins.op = "set" THEN SetField(req, r, Who(F.h)) ELSE req
          /\ res' = IF ins.op = "write"
                    THEN [res EXCEPT ![r] = Append(@, [by |-> Who(F.h), status |-> ins.arg])]
                    ELSE res
    /\ UNCHANGED <<cbKind, hKind, composites, made, config, reg, root, via>>

NextReqLatest(F) ==
    CHOOSE r \in Requests : root[r] # 0 /\ \A q \in Requests : root[q] # 0 => q <= r

\* The request a call of next() passes on: the req of its own invocation.
NextReq(F) == F.req

nextOnce ==
    /\ stack # <<>>
    /\ LET f == Top
           F == frames[f]
       IN /\ F.callee = 0
          /\ At(F).op = "next"
          /\ Len(frames) < MaxFrames
          /\ IF \E g \in DOMAIN frames : frames[g].caller = f
             THEN /\ frames' = [frames EXCEPT ![f].pc = F.pc + 1]
                  /\ stack' = stack
             ELSE /\ frames' = Append([frames EXCEPT ![f].callee = Len(frames) + 1],
                                      NewFrame(F.h.handler, NextReq(F), f, F.pc))
                  /\ stack' = Append(stack, Len(frames) + 1)
    /\ UNCHANGED <<cbKind, hKind, composites, made, config, reg, root, via, req, res, log>>

\* function next() { return handler(req, res); }
next ==
    /\ stack # <<>>
    /\ LET f == Top
           F == frames[f]
       IN /\ F.callee = 0
          /\ At(F).op = "next"
          /\ Len(frames) < MaxFrames
          /\ frames' = Append([frames EXCEPT ![f].callee = Len(frames) + 1],
                              NewFrame(F.h.handler, NextReq(F), f, F.pc))
          /\ stack' = Append(stack, Len(frames) + 1)
    /\ UNCHANGED <<cbKind, hKind, composites, made, config, reg, root, via, req, res, log>>

\* The body of a function is over: its outcome is a success.
ReturnOutcome ==
    /\ stack # <<>>
    /\ LET f == Top
           F == frames[f]
       IN /\ F.callee = 0
          /\ At(F).op = "return"
          /\ frames' = [frames EXCEPT ![f].st = "ok",
                                      ![f].val = ReturnValue(F.h, F.val)]
          /\ stack' = Pop
    /\ UNCHANGED <<cbKind, hKind, composites, made, config, reg, root, via, req, res, log>>

\* The callee has left the stack (suspended, returned or raised) and the
\* caller goes on with what the call gave it: a promise from an async
\* function, a value or an exception from a plain one.
Return ==
    /\ stack # <<>>
    /\ LET f == Top
           F == frames[f]
           g == F.callee
           ins == At(F)
       IN /\ g # 0
          /\ frames' = [frames EXCEPT ![f] =
                CASE ~IsAsync(frames[g].h) /\ frames[g].st = "err" /\ ins.arg = "try"
                        -> [F EXCEPT !.pc = ins.to, !.callee = 0]
                  [] ~IsAsync(frames[g].h) /\ frames[g].st = "err" /\ ins.arg # "try"
                        -> Raise(F)
                  [] ins.arg = "fire" /\ ~(~IsAsync(frames[g].h) /\ frames[g].st = "err")
                        -> [F EXCEPT !.pc = F.pc + 1, !.callee = 0]
                  [] OTHER
                        -> [F EXCEPT !.st = "await", !.callee = 0,
                                     !.on = IF IsAsync(frames[g].h)
                                            THEN nextReturn(g) ELSE 0,
                                     !.val = IF ins.arg = "return" /\ ~IsAsync(frames[g].h)
                                             THEN Awaited(nextReturn(g)) ELSE @]]
          /\ stack' = IF frames'[f].st = "run" THEN stack ELSE Pop
    /\ UNCHANGED <<cbKind, hKind, composites, made, config, reg, root, via, req, res, log>>

CanResumeNoneHung(F) ==
    /\ \A g \in DOMAIN frames : frames[g].st # "hang"
    /\ IF F.st = "await"
       THEN (IF F.on = 0 THEN TRUE ELSE Settled(F.on))
       ELSE F.st = "io"

CanResumeFulfilled(F) ==
    IF F.st = "await"
    THEN (IF F.on = 0 THEN TRUE ELSE frames[F.on].st = "ok")
    ELSE F.st = "io"

\* The external operation a function waits for may end at any time; an
\* awaited promise must have settled (a plain value is awaited for a tick).
CanResume(F) ==
    IF F.st = "await"
    THEN (IF F.on = 0 THEN TRUE ELSE Settled(F.on))
    ELSE F.st = "io"

\* A suspended function is resumed, the stack being empty: its awaited
\* promise has settled, or the external operation it waited for is over.
Resume(f) ==
    /\ stack = <<>>
    /\ LET F == frames[f]
           ins == At(F)
           failed == F.st = "await" /\ F.on # 0 /\ frames[F.on].st = "err"
       IN /\ CanResume(F)
          /\ frames' = [frames EXCEPT ![f] =
                CASE failed /\ ins.arg = "try" -> [F EXCEPT !.st = "run", !.pc = ins.to, !.on = 0]
                  [] failed /\ ins.arg # "try" -> Raise(F)
                  [] OTHER -> [F EXCEPT !.st = "run", !.pc = F.pc + 1, !.on = 0,
                                        !.val = IF ins.arg = "return" /\ F.on # 0
                                                THEN Awaited(F.on) ELSE @]]
          /\ stack' = IF frames'[f].st = "run" THEN << f >> ELSE stack
    /\ UNCHANGED <<cbKind, hKind, composites, made, config, reg, root, via, req, res, log>>

Run ==
    \/ UserStep
    \/ next
    \/ ReturnOutcome
    \/ Return
    \/ \E f \in DOMAIN frames : Resume(f)

(***************************** dispatcher **********************************)

HTTP_METHODS ==
    [GET |-> "GET", POST |-> "POST", PUT |-> "PUT", PATCH |-> "PATCH",
     DELETE |-> "DELETE", HEAD |-> "HEAD", OPTIONS |-> "OPTIONS",
     TRACE |-> "TRACE", CONNECT |-> "CONNECT"]

\* req.method is undefined.
NoMethod == "<undefined>"

\* The values of req.method tried: upper-case, lower-case and mixed-case
\* names, names createHandler has no registration for, the empty string and
\* undefined.
Methods == {"GET", "get", "POST", "Put", "PATCH", "delete", "HEAD", "OPTIONS", "", NoMethod}

\* Spellings of the five methods createHandler has a registration for:
\* upper-case, lower-case, capitalised and mixed-case.
CaseVariants ==
    [GET |-> {"GET", "get", "Get", "gEt"},
     POST |-> {"POST", "post", "Post", "poSt"},
     PUT |-> {"PUT", "put", "Put", "pUT"},
     PATCH |-> {"PATCH", "patch", "Patch", "pAtCh"},
     DELETE |-> {"DELETE", "delete", "Delete", "deLETe"}]

\* Every string a request method is drawn from.
MethodStrings ==
    UNION {CaseVariants[m] : m \in DOMAIN CaseVariants}
        \cup {"HEAD", "OPTIONS", "TRACE", "CONNECT", "head", "Options", "trace", ""}

\* The characters of a string of MethodStrings.
Spelling(s) ==
    CASE s = "GET" -> << "G", "E", "T" >>
      [] s = "get" -> << "g", "e", "t" >>
      [] s = "Get" -> << "G", "e", "t" >>
      [] s = "gEt" -> << "g", "E", "t" >>
      [] s = "POST" -> << "P", "O", "S", "T" >>
      [] s = "post" -> << "p", "o", "s", "t" >>
      [] s = "Post" -> << "P", "o", "s", "t" >>
      [] s = "poSt" -> << "p", "o", "S", "t" >>
      [] s = "PUT" -> << "P", "U", "T" >>
      [] s = "put" -> << "p", "u", "t" >>
      [] s = "Put" -> << "P", "u", "t" >>
      [] s = "pUT" -> << "p", "U", "T" >>
      [] s = "PATCH" -> << "P", "A", "T", "C", "H" >>
      [] s = "patch" -> << "p", "a", "t", "c", "h" >>
      [] s = "Patch" -> << "P", "a", "t", "c", "h" >>
      [] s = "pAtCh" -> << "p", "A", "t", "C", "h" >>
      [] s = "DELETE" -> << "D", "E", "L", "E", "T", "E" >>
      [] s = "delete" -> << "d", "e", "l", "e", "t", "e" >>
      [] s = "Delete" -> << "D", "e", "l", "e", "t", "e" >>
      [] s = "deLETe" -> << "d", "e", "L", "E", "T", "e" >>
      [] s = "HEAD" -> << "H", "E", "A", "D" >>
      [] s = "OPTIONS" -> << "O", "P", "T", "I", "O", "N", "S" >>
      [] s = "TRACE" -> << "T", "R", "A", "C", "E" >>
      [] s = "CONNECT" -> << "C", "O", "N", "N", "E", "C", "T" >>
      [] s = "head" -> << "h", "e", "a", "d" >>
      [] s = "Options" -> << "O", "p", "t", "i", "o", "n", "s" >>
      [] s = "trace" -> << "t", "r", "a", "c", "e" >>
      [] s = "" -> << >>

UpperCharSame(c) == c

\* The upper-case form of a character.
UpperChar(c) ==
    CASE c = "a" -> "A" [] c = "c" -> "C" [] c = "d" -> "D" [] c = "e" -> "E"
      [] c = "g" -> "G" [] c = "h" -> "H" [] c = "i" -> "I" [] c = "l" -> "L"
      [] c = "n" -> "N" [] c = "o" -> "O" [] c = "p" -> "P" [] c = "r" -> "R"
      [] c = "s" -> "S" [] c = "t" -> "T" [] c = "u" -> "U"
      [] OTHER -> c

\* Every string of MethodStrings with each character in its upper-case form.
UpperCased ==
    [s \in MethodStrings |->
        CHOOSE t \in MethodStrings :
            Spelling(t) = [i \in DOMAIN Spelling(s) |-> UpperChar(Spelling(s)[i])]]

\* String.prototype.toUpperCase
ToUpperCase(s) == UpperCased[s]

NotUndefinedOnly(v) == v = NoMethod

\* !v for v a string or undefined
Not(v) == v = NoMethod \/ v = ""

OrFirstOnly(a, b) == a

OrSecond(a, b) == IF b # Undefined THEN b ELSE a

\* a || b for a and b each a function or undefined
Or(a, b) == IF a # Undefined THEN a ELSE b

methodMapShifted(d) ==
    (HTTP_METHODS.POST :> reg[d].get) @@ (HTTP_METHODS.PUT :> reg[d].post) @@
    (HTTP_METHODS.PATCH :> reg[d].put) @@ (HTTP_METHODS.DELETE :> reg[d].patch) @@
    (HTTP_METHODS.GET :> reg[d].delete)

\* The object literal methodMap of dispatcher d.
methodMap(d) ==
    (HTTP_METHODS.POST :> reg[d].post) @@ (HTTP_METHODS.PUT :> reg[d].put) @@
    (HTTP_METHODS.PATCH :> reg[d].patch) @@ (HTTP_METHODS.DELETE :> reg[d].delete) @@
    (HTTP_METHODS.GET :> reg[d].get)

methodHandlerOrGet(d, method) ==
    IF method \in DOMAIN methodMap(d) /\ methodMap(d)[method] # Undefined
    THEN methodMap(d)[method]
    ELSE methodMap(d)[HTTP_METHODS.GET]

\* methodMap[method]: undefined for a key the object does not have.
methodHandler(d, method) ==
    IF method \in DOMAIN methodMap(d) THEN methodMap(d)[method] ELSE Undefined

\* createHandler(config): the function `handler` of dispatcher d, as a value.
createHandler(d) == [t |-> "dispatcher", id |-> d]

\* async (req, res) => { ... }: the dispatcher answers 500 or 405 itself, or
\* calls the method's handler and does not wait for it.
handler ==
    /\ stack # <<>>
    /\ LET f == Top
           F == frames[f]
           r == F.req
           d == F.h.id
           method == IF req[r].method = NoMethod
                     THEN NoMethod ELSE ToUpperCase(req[r].method)
       IN /\ F.callee = 0
          /\ At(F).op = "dispatch"
          /\ IF Not(method)
             THEN /\ res' = [res EXCEPT ![r] = Append(@, [by |-> d, status |-> 500])]
                  /\ frames' = [frames EXCEPT ![f].pc = F.pc + 1]
                  /\ stack' = stack
             ELSE IF methodHandler(d, method) = Undefined
             THEN /\ res' = [res EXCEPT ![r] = Append(@, [by |-> d, status |-> 405])]
                  /\ frames' = [frames EXCEPT ![f].pc = F.pc + 1]
                  /\ stack' = stack
             ELSE /\ Len(frames) < MaxFrames
                  /\ frames' = Append([frames EXCEPT ![f].callee = Len(frames) + 1],
                                      NewFrame(methodHandler(d, method), r, f, F.pc))
                  /\ stack' = Append(stack, Len(frames) + 1)
                  /\ res' = res
    /\ UNCHANGED <<cbKind, hKind, composites, made, config, reg, root, via, req, log>>

postRunsHandler(d, h) ==
    /\ stack = <<>>
    /\ Len(made) < MaxRegistrations
    /\ Len(frames) < MaxFrames
    /\ LET mw == Or(config[d].post, config[d].default)
       IN reg' = [reg EXCEPT ![d].post =
                    IF mw # Undefined THEN Apply(mw, h) ELSE h]
    /\ made' = Append(made, [op |-> "post", of |-> 0, m |-> h.id])
    /\ frames' = Append(frames, NewFrame(reg'[d].post, 1, 0, 0))
    /\ stack' = << Len(frames) + 1 >>
    /\ UNCHANGED <<cbKind, hKind, composites, config, root, via, req, res, log>>

\* handler.post(h)
post(d, h) ==
    /\ stack = <<>>
    /\ Len(made) < MaxRegistrations
    /\ LET mw == Or(config[d].post, config[d].default)
       IN reg' = [reg EXCEPT ![d].post =
                    IF mw # Undefined THEN Apply(mw, h) ELSE h]
    /\ made' = Append(made, [op |-> "post", of |-> 0, m |-> h.id])
    /\ UNCHANGED <<cbKind, hKind, composites, config, frames, stack, root, via, req, res, log>>

getKeepsFirst(d, h) ==
    /\ stack = <<>>
    /\ Len(made) < MaxRegistrations
    /\ LET mw == Or(config[d].get, config[d].default)
       IN reg' = [reg EXCEPT ![d].get =
                    IF @ # Undefined THEN @
                    ELSE IF mw # Undefined THEN Apply(mw, h) ELSE h]
    /\ made' = Append(made, [op |-> "get", of |-> 0, m |-> h.id])
    /\ UNCHANGED <<cbKind, hKind, composites, config, frames, stack, root, via, req, res, log>>

\* handler.get(h)
get(d, h) ==
    /\ stack = <<>>
    /\ Len(made) < MaxRegistrations
    /\ LET mw == Or(config[d].get, config[d].default)
       IN reg' = [reg EXCEPT ![d].get =
                    IF mw # Undefined THEN Apply(mw, h) ELSE h]
    /\ made' = Append(made, [op |-> "get", of |-> 0, m |-> h.id])
    /\ UNCHANGED <<cbKind, hKind, composites, config, frames, stack, root, via, req, res, log>>

\* handler.patch(h)
patch(d, h) ==
    /\ stack = <<>>
    /\ Len(made) < MaxRegistrations
    /\ LET mw == Or(config[d].patch, config[d].default)
       IN reg' = [reg EXCEPT ![d].patch =
                    IF mw # Undefined THEN Apply(mw, h) ELSE h]
    /\ made' = Append(made, [op |-> "patch", of |-> 0, m |-> h.id])
    /\ UNCHANGED <<cbKind, hKind, composites, config, frames, stack, root, via, req, res, log>>

\* handler.put(h)
put(d, h) ==
    /\ stack = <<>>
    /\ Len(made) < MaxRegistrations
    /\ LET mw == Or(config[d].put, config[d].default)
       IN reg' = [reg EXCEPT ![d].put =
                    IF mw # Undefined THEN Apply(mw, h) ELSE h]
    /\ made' = Append(made, [op |-> "put", of |-> 0, m |-> h.id])
    /\ UNCHANGED <<cbKind, hKind, composites, config, frames, stack, root, via, req, res, log>>

\* handler.delete(h)
delete(d, h) ==
    /\ stack = <<>>
    /\ Len(made) < MaxRegistrations
    /\ LET mw == Or(config[d].delete, config[d].default)
       IN reg' = [reg EXCEPT ![d].delete =
                    IF mw # Undefined THEN Apply(mw, h) ELSE h]
    /\ made' = Append(made, [op |-> "delete", of |-> 0, m |-> h.id])
    /\ UNCHANGED <<cbKind, hKind, composites, config, frames, stack, root, via, req, res, log>>

(************************** initial states *********************************)

NoConfig == [k \in {"get", "post", "put", "patch", "delete", "default"} |-> Undefined]
NoRegistry == [k \in {"get", "post", "put", "patch", "delete"} |-> Undefined]

InitRun ==
    /\ composites = <<>>
    /\ made = <<>>
    /\ config = [d \in Dispatchers |-> NoConfig]
    /\ reg = [d \in Dispatchers |-> NoRegistry]
    /\ frames = <<>>
    /\ stack = <<>>
    /\ root = [r \in Requests |-> 0]
    /\ via = [r \in Requests |-> [x |-> 0, c |-> "", n |-> 0]]
    /\ req = [r \in Requests |-> [method |-> "GET", attrs |-> {}]]
    /\ res = [r \in Requests |-> <<>>]
    /\ log = [r \in Requests |-> <<>>]

(********************** merge(a, b)(h) against a(b(h)) *********************)

mA == createMiddleware("A")
mB == createMiddleware("B")
mC == createMiddleware("C")

\* Any two callbacks and any handler; C and G are not used here.
InitMerge ==
    /\ InitRun
    /\ cbKind \in {k \in [Callbacks -> CallbackKinds] : k["C"] = "await"}
    /\ hKind \in {k \in [Handlers -> HandlerKinds] : k["G"] = "sync"}

\* await mergeMiddleware(a, b)(h)(req, res), on request 1
InvokeMerged == Invoke(1, Apply(mergeMiddleware(mA, mB), Handler("H")), 0, "merge")

\* await a(b(h))(req, res), on request 2
InvokeNested == Invoke(2, Apply(mA, Apply(mB, Handler("H"))), 0, "nested")

NextMerge == InvokeMerged \/ InvokeNested \/ Run

SpecMerge == InitMerge /\ [][NextMerge]_vars

(******************* stack and chain composites ****************************)

addInPlace(cs, i, middlewareB) ==
    Append([cs EXCEPT ![i] = Add(cs[i], middlewareB)], Add(cs[i], middlewareB))

addToLatest(cs, i, middlewareB) == Append(cs, Add(cs[Len(cs)], middlewareB))

\* The composites after composites[i].add(middlewareB): add returns a new
\* composite and assigns nothing of its receiver.
add(cs, i, middlewareB) == Append(cs, Add(cs[i], middlewareB))

\* const base = stackMiddleware(a)
StackCall ==
    /\ stack = <<>>
    /\ composites = <<>>
    /\ composites' = Append(composites, stackMiddleware(mA))
    /\ made' = Append(made, [op |-> "stack", of |-> 0, m |-> "A"])
    /\ UNCHANGED <<cbKind, hKind, config, reg, frames, stack, root, via, req, res, log>>

\* const base = chainMiddleware(a)
ChainCall ==
    /\ stack = <<>>
    /\ composites = <<>>
    /\ composites' = Append(composites, chainMiddleware(mA))
    /\ made' = Append(made, [op |-> "chain", of |-> 0, m |-> "A"])
    /\ UNCHANGED <<cbKind, hKind, config, reg, frames, stack, root, via, req, res, log>>

\* const y = composites[i].add(createMiddleware(cb))
AddCall(i, cb) ==
    /\ stack = <<>>
    /\ Len(composites) < MaxComposites
    /\ composites' = add(composites, i, createMiddleware(cb))
    /\ made' = Append(made, [op |-> "add", of |-> i, m |-> cb])
    /\ UNCHANGED <<cbKind, hKind, config, reg, frames, stack, root, via, req, res, log>>

\* await composites[i](h)(req, res)
InvokeComposite(r, i) == Invoke(r, Apply(composites[i], Handler("H")), i, "")

\* The callbacks of tests/combine.test.ts; h is a plain or an async function.
InitShare ==
    /\ InitRun
    /\ cbKind = [c \in Callbacks |-> "await"]
    /\ hKind \in {k \in [Handlers -> {"sync", "async"}] : k["G"] = "sync"}

NextShare ==
    \/ StackCall
    \/ ChainCall
    \/ \E i \in DOMAIN composites, cb \in {"B", "C"} : AddCall(i, cb)
    \/ \E r \in Requests, i \in DOMAIN composites : InvokeComposite(r, i)
    \/ Run

SpecShare == InitShare /\ [][NextShare]_vars

(********************* one request through a composition ******************)

\* mergeMiddleware(a, b), stackMiddleware(a).add(b).add(c) and
\* chainMiddleware(a).add(b).add(c)
Composition(x) ==
    CASE x = "merge" -> mergeMiddleware(mA, mB)
      [] x = "stack" -> Add(Add(stackMiddleware(mA), mB), mC)
      [] x = "chain" -> Add(Add(chainMiddleware(mA), mB), mC)

\* await composition(h)(req, res)
InvokeComposition(x) == Invoke(1, Apply(Composition(x), Handler("H")), 0, x)

\* Any three callbacks and any handler.
InitCompose ==
    /\ InitRun
    /\ cbKind \in [Callbacks -> CallbackKinds]
    /\ hKind \in {k \in [Handlers -> HandlerKinds] : k["G"] = "sync"}

NextCompose ==
    \/ \E x \in {"merge", "stack", "chain"} : InvokeComposition(x)
    \/ Run

SpecCompose == InitCompose /\ [][NextCompose]_vars

(************************ requests to a dispatcher *************************)

\* await handler(req, res), handler being dispatcher d
InvokeDispatcher(r, d) == Invoke(r, createHandler(d), 0, "dispatch")

\* createHandler() and createHandler({ middleware: { get, default } }); a
\* first request of any method and a second one with method get.
InitDispatch ==
    /\ composites = <<>>
    /\ made = <<>>
    /\ config \in [Dispatchers ->
          {NoConfig, [NoConfig EXCEPT !.get = mA, !.default = mB]}]
    /\ reg = [d \in Dispatchers |-> NoRegistry]
    /\ frames = <<>>
    /\ stack = <<>>
    /\ root = [r \in Requests |-> 0]
    /\ via = [r \in Requests |-> [x |-> 0, c |-> "", n |-> 0]]
    /\ req \in {q \in [Requests -> [method : Methods, attrs : {{}}]] :
                    q[2].method = "get"}
    /\ res = [r \in Requests |-> <<>>]
    /\ log = [r \in Requests |-> <<>>]
    /\ cbKind = [c \in Callbacks |-> "await"]
    /\ hKind \in {k \in [Handlers -> HandlerKinds] : k["G"] = "sync"}

\* Any handler is registered for GET, and one for each other method.
NextDispatch ==
    \/ \E d \in Dispatchers : post(d, Handler("G"))
    \/ \E d \in Dispatchers, id \in Handlers : get(d, Handler(id))
    \/ \E d \in Dispatchers : patch(d, Handler("G"))
    \/ \E d \in Dispatchers : put(d, Handler("H"))
    \/ \E d \in Dispatchers : delete(d, Handler("H"))
    \/ \E r \in Requests, d \in Dispatchers : InvokeDispatcher(r, d)
    \/ handler
    \/ Run

SpecDispatch == InitDispatch /\ [][NextDispatch]_vars

(****************** one request to a configured dispatcher *****************)

MethodKeys == {"get", "post", "put", "patch", "delete"}

\* createHandler({ middleware: { ... } }): up to two method-specific
\* middleware (callback A for one method, B for another) and, or not, a
\* default one (callback C).
Configs ==
    {c \in [MethodKeys \cup {"default"} -> {Undefined, mA, mB, mC}] :
        /\ \A k \in MethodKeys : c[k] # mC
        /\ c["default"] \in {Undefined, mC}
        /\ Cardinality({k \in MethodKeys : c[k] = mA}) <= 1
        /\ Cardinality({k \in MethodKeys : c[k] = mB}) <= 1}

InitConfig ==
    /\ composites = <<>>
    /\ made = <<>>
    /\ config \in [Dispatchers -> Configs]
    /\ reg = [d \in Dispatchers |-> NoRegistry]
    /\ frames = <<>>
    /\ stack = <<>>
    /\ root = [r \in Requests |-> 0]
    /\ via = [r \in Requests |-> [x |-> 0, c |-> "", n |-> 0]]
    /\ req \in {q \in [Requests -> [method : Methods, attrs : {{}}]] :
                    /\ q[1].method \in {"GET", "get", "POST", "Put", "PATCH", "delete"}
                    /\ q[2].method = "GET"}
    /\ res = [r \in Requests |-> <<>>]
    /\ log = [r \in Requests |-> <<>>]
    /\ cbKind = [c \in Callbacks |-> "await"]
    /\ hKind = [H |-> "async", G |-> "sync"]

\* Registrations of one handler, and one request, of a method that has a
\* registration call.
NextConfig ==
    \/ \E d \in Dispatchers : post(d, Handler("H"))
    \/ \E d \in Dispatchers : get(d, Handler("H"))
    \/ \E d \in Dispatchers : patch(d, Handler("H"))
    \/ \E d \in Dispatchers : put(d, Handler("H"))
    \/ \E d \in Dispatchers : delete(d, Handler("H"))
    \/ \E d \in Dispatchers : InvokeDispatcher(1, d)
    \/ handler
    \/ Run

SpecConfig == InitConfig /\ [][NextConfig]_vars

(************** two requests through the same composed handler *************)

\* await handler(req, res), handler being composition(h) for the one
\* composition x every request of the run goes through
InvokeShared(r, x) ==
    /\ \A q \in Requests : root[q] # 0 => via[q].c = x
    /\ Invoke(r, Apply(Composition(x), Handler("H")), 0, x)

\* Callbacks that await next(), at once or after a suspension, that do not
\* await it or that catch its failure, and any handler.
InitConcurrent ==
    /\ InitRun
    /\ cbKind \in {k \in [Callbacks -> {"await", "ioawait", "fire", "try"}] :
                      k["C"] \in {"await", "ioawait"}}
    /\ hKind \in {k \in [Handlers -> HandlerKinds] : k["G"] = "sync"}

NextConcurrent ==
    \/ \E r \in Requests, x \in {"merge", "stack", "chain"} : InvokeShared(r, x)
    \/ Run

SpecConcurrent == InitConcurrent /\ [][NextConcurrent]_vars

(************ the same middleware composed in different ways ***************)

\* Two middleware composed three ways, and three middleware composed as a
\* chain and as the stack of the reversed sequence.
Form(x) ==
    CASE x = "merge(a,b)" -> mergeMiddleware(mA, mB)
      [] x = "stack(a).add(b)" -> Add(stackMiddleware(mA), mB)
      [] x = "chain(b).add(a)" -> Add(chainMiddleware(mB), mA)
      [] x = "chain(a).add(b).add(c)" -> Add(Add(chainMiddleware(mA), mB), mC)
      [] x = "stack(c).add(b).add(a)" -> Add(Add(stackMiddleware(mC), mB), mA)

Forms ==
    {"merge(a,b)", "stack(a).add(b)", "chain(b).add(a)",
     "chain(a).add(b).add(c)", "stack(c).add(b).add(a)"}

\* The number of middleware a form composes.
Arity(x) == IF x \in {"chain(a).add(b).add(c)", "stack(c).add(b).add(a)"} THEN 3 ELSE 2

\* await form(h)(req, res): request 1 through any form, request 2 through
\* another form of the same middleware.
InvokeForm(r, x) ==
    /\ r = 2 => (x # via[1].c /\ Arity(x) = Arity(via[1].c))
    /\ Invoke(r, Apply(Form(x), Handler("H")), 0, x)

\* Callbacks that await next() or not, at once or after a suspension, that
\* catch its failure or that answer themselves; any handler.
InitEquiv ==
    /\ InitRun
    /\ cbKind \in {k \in [Callbacks -> {"await", "fire", "ioawait", "try", "short"}] :
                      k["C"] \in {"await", "fire"}}
    /\ hKind \in {k \in [Handlers -> HandlerKinds] : k["G"] = "sync"}

NextEquiv ==
    \/ \E r \in Requests, x \in Forms : InvokeForm(r, x)
    \/ Run

SpecEquiv == InitEquiv /\ [][NextEquiv]_vars

(******************* composing and registering, and requests ***************)

\* A module that composes middleware and registers handlers at any time
\* between requests: createHandler() or createHandler({ middleware: { get,
\* default } }), a stack or a chain extended by add, registrations for POST
\* and GET, a request to a composed handler and then one to the dispatcher.
InitBuild ==
    /\ composites = <<>>
    /\ made = <<>>
    /\ config \in [Dispatchers ->
          {NoConfig, [NoConfig EXCEPT !.get = mA, !.default = mB]}]
    /\ reg = [d \in Dispatchers |-> NoRegistry]
    /\ frames = <<>>
    /\ stack = <<>>
    /\ root = [r \in Requests |-> 0]
    /\ via = [r \in Requests |-> [x |-> 0, c |-> "", n |-> 0]]
    /\ req \in {q \in [Requests -> [method : Methods, attrs : {{}}]] :
                    q[1].method = "GET" /\ q[2].method \in {"get", "POST"}}
    /\ res = [r \in Requests |-> <<>>]
    /\ log = [r \in Requests |-> <<>>]
    /\ cbKind = [c \in Callbacks |-> "await"]
    /\ hKind = [H |-> "async", G |-> "sync"]

NextBuild ==
    \/ StackCall
    \/ ChainCall
    \/ \E i \in DOMAIN composites : AddCall(i, "B")
    \/ \E d \in Dispatchers : post(d, Handler("H"))
    \/ \E d \in Dispatchers : get(d, Handler("H"))
    \/ \E i \in DOMAIN composites : InvokeComposite(1, i)
    \/ \E d \in Dispatchers : InvokeDispatcher(2, d)
    \/ handler
    \/ Run

SpecBuild == InitBuild /\ [][NextBuild]_vars

(***************** what a composed handler's invocation gives **************)

\* Callbacks that return what next() returned, that await it, catch its
\* failure, do not wait for it, raise or answer themselves; handlers that
\* return a value or raise, at once or after a suspension.
InitValue ==
    /\ InitRun
    /\ cbKind \in [Callbacks -> {"return", "await", "try", "fire", "throw", "short"}]
    /\ hKind \in {k \in [Handlers -> {"value", "asyncValue", "sync", "syncThrow", "asyncThrow"}] :
                    k["G"] = "sync"}

NextValue ==
    \/ \E x \in {"merge", "stack", "chain"} : InvokeComposition(x)
    \/ Run

SpecValue == InitValue /\ [][NextValue]_vars

(************* a request that stalls and one that does not ******************)

\* Two requests, each a GET or a POST, through one composed handler whose
\* callback b never completes on a POST; the callbacks around it await
\* next(), at once or after a suspension, or do not await it.
InitStall ==
    /\ composites = <<>>
    /\ made = <<>>
    /\ config = [d \in Dispatchers |-> NoConfig]
    /\ reg = [d \in Dispatchers |-> NoRegistry]
    /\ frames = <<>>
    /\ stack = <<>>
    /\ root = [r \in Requests |-> 0]
    /\ via = [r \in Requests |-> [x |-> 0, c |-> "", n |-> 0]]
    /\ req \in [Requests -> [method : {"GET", "POST"}, attrs : {{}}]]
    /\ res = [r \in Requests |-> <<>>]
    /\ log = [r \in Requests |-> <<>>]
    /\ cbKind \in {k \in [Callbacks -> {"await", "ioawait", "fire", "try", "hangif"}] :
                      /\ k["B"] = "hangif"
                      /\ k["A"] # "hangif"
                      /\ k["C"] \in {"await", "ioawait", "fire"}}
    /\ hKind \in {k \in [Handlers -> {"sync", "async"}] : k["G"] = "sync"}

NextStall ==
    \/ \E r \in Requests, x \in {"merge", "stack", "chain"} : InvokeShared(r, x)
    \/ Run

\* The event loop runs what can run: the running function goes on, and a
\* suspended function is resumed once what it waits for is there (an
\* external operation that was started ends).
SpecStall == InitStall /\ [][NextStall]_vars /\ WF_vars(Run)

(************** a handler, and the same handler wrapped twice ***************)

\* await h(req, res), h being the function that was given to the
\* registration calls
InvokeRaw(r) == Invoke(r, Handler("H"), 0, "raw")

\* createHandler({ middleware: { post: a, get: b } }): registering h for
\* POST stores a(h) and registering it for GET stores b(h).
InitWrap ==
    /\ composites = <<>>
    /\ made = <<>>
    /\ config = [d \in Dispatchers |-> [NoConfig EXCEPT !.post = mA, !.get = mB]]
    /\ reg = [d \in Dispatchers |-> NoRegistry]
    /\ frames = <<>>
    /\ stack = <<>>
    /\ root = [r \in Requests |-> 0]
    /\ via = [r \in Requests |-> [x |-> 0, c |-> "", n |-> 0]]
    /\ req \in [Requests -> [method : {"GET", "POST"}, attrs : {{}}]]
    /\ res = [r \in Requests |-> <<>>]
    /\ log = [r \in Requests |-> <<>>]
    /\ cbKind \in {k \in [Callbacks -> {"await", "ioawait", "fire", "short"}] :
                      k["C"] = "await"}
    /\ hKind \in {k \in [Handlers -> HandlerKinds] : k["G"] = "sync"}

NextWrap ==
    \/ \E d \in Dispatchers : post(d, Handler("H"))
    \/ \E d \in Dispatchers : get(d, Handler("H"))
    \/ \E r \in Requests : InvokeRaw(r)
    \/ \E r \in Requests, d \in Dispatchers : InvokeDispatcher(r, d)
    \/ handler
    \/ Run

SpecWrap == InitWrap /\ [][NextWrap]_vars

(*************** the same method in different letter cases ******************)

\* The upper-case method a spelling of CaseVariants is a spelling of.
MethodOf(s) == CHOOSE m \in DOMAIN CaseVariants : s \in CaseVariants[m]

\* createHandler() or createHandler({ middleware: { get, default } }); a
\* first request with any spelling of one of the five methods and a second
\* one with the upper-case spelling of the same method.
InitCase ==
    /\ composites = <<>>
    /\ made = <<>>
    /\ config \in [Dispatchers ->
          {NoConfig, [NoConfig EXCEPT !.get = mA, !.default = mB]}]
    /\ reg = [d \in Dispatchers |-> NoRegistry]
    /\ frames = <<>>
    /\ stack = <<>>
    /\ root = [r \in Requests |-> 0]
    /\ via = [r \in Requests |-> [x |-> 0, c |-> "", n |-> 0]]
    /\ req \in {q \in [Requests ->
                        [method : UNION {CaseVariants[m] : m \in DOMAIN CaseVariants},
                         attrs : {{}}]] :
                    q[2].method = MethodOf(q[1].method)}
    /\ res = [r \in Requests |-> <<>>]
    /\ log = [r \in Requests |-> <<>>]
    /\ cbKind = [c \in Callbacks |-> "await"]
    /\ hKind = [H |-> "async", G |-> "sync"]

\* Registrations for the five methods, GET with either handler.
NextCase ==
    \/ \E d \in Dispatchers : post(d, Handler("G"))
    \/ \E d \in Dispatchers, id \in Handlers : get(d, Handler(id))
    \/ \E d \in Dispatchers : patch(d, Handler("G"))
    \/ \E d \in Dispatchers : put(d, Handler("H"))
    \/ \E d \in Dispatchers : delete(d, Handler("H"))
    \/ \E r \in Requests, d \in Dispatchers : InvokeDispatcher(r, d)
    \/ handler
    \/ Run

SpecCase == InitCase /\ [][NextCase]_vars

(***************** a dispatcher wrapped by a middleware *********************)

\* await a(handler)(req, res), handler being dispatcher d
InvokeAround(r, d) == Invoke(r, Apply(mA, createHandler(d)), 0, "around")

\* A callback a that awaits next(), at once, after a suspension or in
\* try/catch, around createHandler() or createHandler({ middleware: { get } });
\* any handler for GET, a plain one for POST; GET and POST requests.
InitAround ==
    /\ composites = <<>>
    /\ made = <<>>
    /\ config \in [Dispatchers -> {NoConfig, [NoConfig EXCEPT !.get = mB]}]
    /\ reg = [d \in Dispatchers |-> NoRegistry]
    /\ frames = <<>>
    /\ stack = <<>>
    /\ root = [r \in Requests |-> 0]
    /\ via = [r \in Requests |-> [x |-> 0, c |-> "", n |-> 0]]
    /\ req \in [Requests -> [method : {"GET", "post"}, attrs : {{}}]]
    /\ res = [r \in Requests |-> <<>>]
    /\ log = [r \in Requests |-> <<>>]
    /\ cbKind \in {k \in [Callbacks -> {"await", "ioawait", "try"}] :
                      k["B"] = "await" /\ k["C"] = "await"}
    /\ hKind \in {k \in [Handlers -> HandlerKinds] : k["G"] = "sync"}

NextAround ==
    \/ \E d \in Dispatchers : get(d, Handler("H"))
    \/ \E d \in Dispatchers : post(d, Handler("G"))
    \/ \E r \in Requests, d \in Dispatchers : InvokeAround(r, d)
    \/ handler
    \/ Run

SpecAround == InitAround /\ [][NextAround]_vars

(******************* the kind property of composites ************************)

\* A stack or a chain extended by add calls, and a request through any of
\* the composites.
InitKind ==
    /\ InitRun
    /\ cbKind = [c \in Callbacks |-> "await"]
    /\ hKind \in {k \in [Handlers -> {"sync", "async"}] : k["G"] = "sync"}

NextKind ==
    \/ StackCall
    \/ ChainCall
    \/ \E i \in DOMAIN composites, cb \in {"B", "C"} : AddCall(i, cb)
    \/ \E i \in DOMAIN composites : InvokeComposite(1, i)
    \/ Run

SpecKind == InitKind /\ [][NextKind]_vars

(************** the same two middleware composed more than once ************)

BuiltAlternating(x, n) ==
    IF n % 2 = 1
    THEN (CASE x = "merge" -> mergeMiddleware(mA, mB)
            [] x = "stack" -> Add(stackMiddleware(mA), mB)
            [] x = "chain" -> Add(chainMiddleware(mA), mB))
    ELSE (CASE x = "merge" -> mergeMiddleware(mB, mA)
            [] x = "stack" -> Add(stackMiddleware(mB), mA)
            [] x = "chain" -> Add(chainMiddleware(mB), mA))

\* What the n-th evaluation of mergeMiddleware(a, b), of
\* stackMiddleware(a).add(b) or of chainMiddleware(a).add(b) returns: the
\* functions keep no count of their calls.
Built(x, n) ==
    CASE x = "merge" -> mergeMiddleware(mA, mB)
      [] x = "stack" -> Add(stackMiddleware(mA), mB)
      [] x = "chain" -> Add(chainMiddleware(mA), mB)

\* const m = mergeMiddleware(a, b) (or the stack, or the chain), once more:
\* every composing call of a run is of the same expression.
Compose(x) ==
    /\ stack = <<>>
    /\ Len(composites) < MaxComposites
    /\ made # <<>> => made[1].op = x
    /\ composites' = Append(composites, Built(x, Len(composites) + 1))
    /\ made' = Append(made, [op |-> x, of |-> 0, m |-> "A"])
    /\ UNCHANGED <<cbKind, hKind, config, reg, frames, stack, root, via, req, res, log>>

\* await composites[i](h)(req, res): the second request goes through
\* another composite than the first.
InvokeBuilt(r, i) ==
    /\ r = 2 => via[1].x # i
    /\ InvokeComposite(r, i)

\* Callbacks that await next(), leave it unawaited, wait before it, skip it
\* or fail, over handlers of both sorts; the two requests are equal.
InitTwice ==
    /\ InitRun
    /\ cbKind \in {k \in [Callbacks -> CallbackKinds] :
                     /\ k["A"] \in {"await", "fire", "ioawait", "throw"}
                     /\ k["B"] \in {"await", "fire", "short", "try"}
                     /\ k["C"] = "await"}
    /\ hKind \in {k \in [Handlers -> HandlerKinds] :
                    k["H"] \in {"sync", "async", "asyncThrow"} /\ k["G"] = "sync"}

NextTwice ==
    \/ \E x \in {"merge", "stack", "chain"} : Compose(x)
    \/ \E r \in Requests, i \in DOMAIN composites : InvokeBuilt(r, i)
    \/ Run

SpecTwice == InitTwice /\ [][NextTwice]_vars

(************ compositions whose callbacks and handler terminate ***********)

\* Callbacks that await every next() they call, none, one or two of them,
\* at once or after a suspension, and that return or throw. The handler
\* returns or throws, at once or after a suspension.
InitLive ==
    /\ InitRun
    /\ cbKind \in {k \in [Callbacks -> CallbackKinds] :
                     /\ k["A"] \in {"await", "try", "twice", "throw"}
                     /\ k["B"] \in {"await", "ioawait", "short"}
                     /\ k["C"] \in {"await", "ioawait"}}
    /\ hKind \in {k \in [Handlers -> HandlerKinds] :
                    k["H"] \in {"sync", "async", "asyncThrow"} /\ k["G"] = "sync"}

NextLive ==
    \/ \E r \in Requests, x \in {"merge", "chain"} : InvokeShared(r, x)
    \/ Run

\* The event loop runs what can run, and the external operations the
\* callbacks and the handler start come to an end.
SpecLive == InitLive /\ [][NextLive]_vars /\ WF_vars(Run)

(******************* mergeMiddleware nested to the left and right *********)

\* mergeMiddleware(mergeMiddleware(a, b), c) and
\* mergeMiddleware(a, mergeMiddleware(b, c))
Nested(x) ==
    CASE x = "merge(merge(a,b),c)" -> mergeMiddleware(mergeMiddleware(mA, mB), mC)
      [] x = "merge(a,merge(b,c))" -> mergeMiddleware(mA, mergeMiddleware(mB, mC))

Nestings == {"merge(merge(a,b),c)", "merge(a,merge(b,c))"}

\* await nested(h)(req, res): one request through each nesting, in either
\* order.
InvokeNesting(r, x) ==
    /\ r = 2 => x # via[1].c
    /\ Invoke(r, Apply(Nested(x), Handler("H")), 0, x)

\* Callbacks that await next() or not, at once or after a suspension, that
\* catch its failure, answer themselves or throw; any handler.
InitAssoc ==
    /\ InitRun
    /\ cbKind \in {k \in [Callbacks -> CallbackKinds] :
                     /\ k["A"] \in {"await", "fire", "ioawait", "try"}
                     /\ k["B"] \in {"await", "fire", "ioawait", "short", "throw"}
                     /\ k["C"] \in {"await", "fire", "ioawait"}}
    /\ hKind \in {k \in [Handlers -> HandlerKinds] : k["G"] = "sync"}

NextAssoc ==
    \/ \E r \in Requests, x \in Nestings : InvokeNesting(r, x)
    \/ Run

SpecAssoc == InitAssoc /\ [][NextAssoc]_vars

(************* requests with a method createHandler has no slot for ********)

\* Names of methods other than the five createHandler registers handlers
\* for, those of HTTP_METHODS among them, in upper and lower case.
OtherMethods == {"HEAD", "OPTIONS", "TRACE", "CONNECT", "head", "Options", "trace"}

\* What handler.post(h) and the like store on dispatcher d for key.
Stored(d, key, h) ==
    LET mw == Or(config[d][key], config[d].default)
    IN IF mw # Undefined THEN Apply(mw, h) ELSE h

\* The registry of dispatcher d once keys have been registered with h.
RegistryOf(d, keys, h) ==
    [k \in MethodKeys |-> IF k \in keys THEN Stored(d, k, h) ELSE Undefined]

\* createHandler() or createHandler({ middleware: { get, default } }), on
\* which no registration, those for GET and POST or all five have been made
\* when the module was loaded (handler.get(g).post(g)...); a first request
\* with one of the other methods and a second one with GET.
InitOutside ==
    /\ composites = <<>>
    /\ made = <<>>
    /\ config \in [Dispatchers ->
          {NoConfig, [NoConfig EXCEPT !.get = mA, !.default = mB]}]
    /\ reg \in {[d \in Dispatchers |-> RegistryOf(d, keys, Handler("G"))] :
                    keys \in {{}, {"get", "post"}, MethodKeys}}
    /\ frames = <<>>
    /\ stack = <<>>
    /\ root = [r \in Requests |-> 0]
    /\ via = [r \in Requests |-> [x |-> 0, c |-> "", n |-> 0]]
    /\ req \in {q \in [Requests -> [method : OtherMethods \cup {"GET"}, attrs : {{}}]] :
                    q[1].method \in OtherMethods /\ q[2].method = "GET"}
    /\ res = [r \in Requests |-> <<>>]
    /\ log = [r \in Requests |-> <<>>]
    /\ cbKind = [c \in Callbacks |-> "await"]
    /\ hKind = [H |-> "async", G |-> "sync"]

NextOutside ==
    \/ \E d \in Dispatchers : post(d, Handler("H"))
    \/ \E d \in Dispatchers : get(d, Handler("H"))
    \/ \E d \in Dispatchers : patch(d, Handler("H"))
    \/ \E d \in Dispatchers : put(d, Handler("H"))
    \/ \E d \in Dispatchers : delete(d, Handler("H"))
    \/ \E r \in Requests, d \in Dispatchers : InvokeDispatcher(r, d)
    \/ handler
    \/ Run

SpecOutside == InitOutside /\ [][NextOutside]_vars

(************ registrations between and during the requests ****************)

\* createHandler() or createHandler({ middleware: { get, default } }) with
\* no registration yet; two requests with the same method, GET or POST, and
\* handlers that suspend, so that a request is still served when the next
\* registration is made and the next request arrives.
InitRereg ==
    /\ composites = <<>>
    /\ made = <<>>
    /\ config \in [Dispatchers ->
          {NoConfig, [NoConfig EXCEPT !.get = mA, !.default = mB]}]
    /\ reg = [d \in Dispatchers |-> NoRegistry]
    /\ frames = <<>>
    /\ stack = <<>>
    /\ root = [r \in Requests |-> 0]
    /\ via = [r \in Requests |-> [x |-> 0, c |-> "", n |-> 0]]
    /\ req \in {q \in [Requests -> [method : {"GET", "post"}, attrs : {{}}]] :
                    q[1].method = q[2].method}
    /\ res = [r \in Requests |-> <<>>]
    /\ log = [r \in Requests |-> <<>>]
    /\ cbKind \in {k \in [Callbacks -> {"await", "ioawait"}] : k["C"] = "await"}
    /\ hKind = [H |-> "async", G |-> "async"]

NextRereg ==
    \/ \E d \in Dispatchers, id \in Handlers : post(d, Handler(id))
    \/ \E d \in Dispatchers, id \in Handlers : get(d, Handler(id))
    \/ \E r \in Requests, d \in Dispatchers : InvokeDispatcher(r, d)
    \/ handler
    \/ Run

SpecRereg == InitRereg /\ [][NextRereg]_vars

(********************** two dispatchers, two registries ********************)

\* const d = createHandler(config); const e = createHandler(config2)
TwoDispatchers == {"D", "E"}

\* The handler the module registers on dispatcher d: h on d and g on e, so
\* that a stored handler tells which dispatcher it was meant for.
Own(d) == IF d = "D" THEN Handler("H") ELSE Handler("G")

registrationReturnFirst(d) == createHandler("D")

\* return handler: what handler.post(h) and the like return is the
\* function `handler` of the createHandler call whose closure they are.
registrationReturn(d) == createHandler(d)

\* d.k1(h).k2(h), one expression: the second registration is called on
\* what the first one returned.
Chained(d, k1, k2) ==
    /\ stack = <<>>
    /\ Len(made) + 2 <= MaxRegistrations
    /\ LET d2 == registrationReturn(d).id
           first == [reg EXCEPT ![d][k1] = Stored(d, k1, Own(d))]
       IN reg' = [first EXCEPT ![d2][k2] = Stored(d2, k2, Own(d))]
    /\ made' = made \o << [op |-> k1, of |-> 0, m |-> Own(d).id],
                          [op |-> k2, of |-> 0, m |-> Own(d).id] >>
    /\ UNCHANGED <<cbKind, hKind, composites, config, frames, stack, root, via, req, res, log>>

\* Two createHandler calls, each without a config or with { middleware: {
\* get, default } } (the same object or not), and no registration yet; two
\* requests, each a GET or a POST.
InitOwn ==
    /\ composites = <<>>
    /\ made = <<>>
    /\ config \in [TwoDispatchers ->
          {NoConfig, [NoConfig EXCEPT !.get = mA, !.default = mB]}]
    /\ reg = [d \in TwoDispatchers |-> NoRegistry]
    /\ frames = <<>>
    /\ stack = <<>>
    /\ root = [r \in Requests |-> 0]
    /\ via = [r \in Requests |-> [x |-> 0, c |-> "", n |-> 0]]
    /\ req \in [Requests -> [method : {"GET", "POST"}, attrs : {{}}]]
    /\ res = [r \in Requests |-> <<>>]
    /\ log = [r \in Requests |-> <<>>]
    /\ cbKind = [c \in Callbacks |-> "await"]
    /\ hKind = [H |-> "async", G |-> "sync"]

NextOwn ==
    \/ \E d \in TwoDispatchers : post(d, Own(d))
    \/ \E d \in TwoDispatchers : get(d, Own(d))
    \/ \E d \in TwoDispatchers, k1, k2 \in {"get", "post"} : Chained(d, k1, k2)
    \/ \E r \in Requests, d \in TwoDispatchers : InvokeDispatcher(r, d)
    \/ handler
    \/ Run

SpecOwn == InitOwn /\ [][NextOwn]_vars

(******************** composites that were never added to ******************)

\* A middleware m, and stackMiddleware(m) and chainMiddleware(m) as they
\* are returned, add not called; m is a or mergeMiddleware(a, b).
Bare(x) ==
    CASE x = "a" -> mA
      [] x = "stack(a)" -> stackMiddleware(mA)
      [] x = "chain(a)" -> chainMiddleware(mA)
      [] x = "merge(a,b)" -> mergeMiddleware(mA, mB)
      [] x = "stack(merge(a,b))" -> stackMiddleware(mergeMiddleware(mA, mB))
      [] x = "chain(merge(a,b))" -> chainMiddleware(mergeMiddleware(mA, mB))

Bares ==
    {"a", "stack(a)", "chain(a)", "merge(a,b)", "stack(merge(a,b))", "chain(merge(a,b))"}

\* The middleware a form is, or was made of.
Inside(x) == IF x \in {"a", "stack(a)", "chain(a)"} THEN "a" ELSE "merge(a,b)"

\* await form(h)(req, res): request 1 through any form, request 2 through
\* another form of the same middleware.
InvokeBare(r, x) ==
    /\ r = 2 => (x # via[1].c /\ Inside(x) = Inside(via[1].c))
    /\ Invoke(r, Apply(Bare(x), Handler("H")), 0, x)

\* Any callback a, a callback b that awaits next() or not, answers itself or
\* catches, and any handler.
InitBare ==
    /\ InitRun
    /\ cbKind \in {k \in [Callbacks -> CallbackKinds] :
                     /\ k["B"] \in {"await", "fire", "ioawait", "short", "try"}
                     /\ k["C"] = "await"}
    /\ hKind \in {k \in [Handlers -> HandlerKinds] : k["G"] = "sync"}

NextBare ==
    \/ \E r \in Requests, x \in Bares : InvokeBare(r, x)
    \/ Run

SpecBare == InitBare /\ [][NextBare]_vars

(***************************** observations ********************************)

Min(a, b) == IF a < b THEN a ELSE b

PrefixComparable(s, t) ==
    SubSeq(s, 1, Min(Len(s), Len(t))) = SubSeq(t, 1, Min(Len(s), Len(t)))

IsPrefix(s, t) == Len(s) <= Len(t) /\ s = SubSeq(t, 1, Len(s))

FramesOf(r) == {f \in DOMAIN frames : frames[f].req = r}

\* The request was invoked and nothing of it can run any more.
Quiescent(r) ==
    /\ root[r] # 0
    /\ \A f \in FramesOf(r) : frames[f].st \in {"ok", "err", "hang"}

\* The outcome of the outermost invocation of request r.
Outcome(r) == IF root[r] = 0 THEN "none" ELSE frames[root[r]].st

\* The events of a log without the request attributes: <<who, tag>>.
Tags(l) == [i \in DOMAIN l |-> << l[i].who, l[i].tag >>]

\* The frames of request r that run the terminal handler id.
HandlerFrames(r, id) ==
    {f \in FramesOf(r) : frames[f].h = Handler(id)}

IsMiddlewareHandler(f) == frames[f].h.t = "middlewareHandler"

\* The body of the callback a middlewareHandler frame runs.
KindOf(f) == cbKind[frames[f].h.callback]

\* The frames that called f, directly or not.
RECURSIVE Ancestors(_)
Ancestors(f) ==
    IF frames[f].caller = 0 THEN {}
    ELSE {frames[f].caller} \cup Ancestors(frames[f].caller)

\* The frames started, directly or not, by f's calls.
Descendants(g) == {d \in DOMAIN frames : g \in Ancestors(d)}

\* How frame d (not a root) was called: "await", "try" or "fire".
CallMode(d) == Body(frames[frames[d].caller].h)[frames[d].site].arg

\* g and the frames below g that were reached through awaited calls only.
AwaitedFrom(g) ==
    {g} \cup {d \in Descendants(g) :
                \A e \in ({d} \cup Ancestors(d)) \cap Descendants(g) :
                    CallMode(e) \in {"await", "try"}}

\* The caller of g has gone past the call that started g.
ResumedAfter(g) ==
    /\ frames[frames[g].caller].callee # g
    /\ ~(frames[frames[g].caller].st = "await" /\ frames[frames[g].caller].on = g)

\* A statement of invocation d raised (d is where a failure started).
Threw(d) == frames[d].st # "run" /\ At(frames[d]).op = "throw"

AwaitsNext(k) == k \in {"await", "ioawait", "try"}

IsEntry(e) == e.tag \in {"pre", "run"}
IsExit(e) == e.tag \in {"post", "catch"}
Whos(l) == [i \in DOMAIN l |-> l[i].who]

\* Who ran its code before next() (or the handler's code), in order.
Entries(l) == Whos(SelectSeq(l, IsEntry))

\* Who ran its code after next(), in order.
Exits(l) == Whos(SelectSeq(l, IsExit))

Range(t) == {t[i] : i \in DOMAIN t}
Position(t, x) == CHOOSE i \in DOMAIN t : t[i] = x

\* s keeps the order of t, whose elements are distinct (some may be missing).
IsSubseq(s, t) ==
    /\ Range(s) \subseteq Range(t)
    /\ \A i, j \in DOMAIN s : i < j => Position(t, s[i]) < Position(t, s[j])

\* No code after a next() runs before the last code before a next().
EntriesFirst(l) ==
    \A i, j \in DOMAIN l : (IsExit(l[i]) /\ IsEntry(l[j])) => j < i

\* The callbacks of a composition, from the outermost to the innermost.
Order(c) ==
    CASE c = "merge" -> << "A", "B" >>
      [] c = "stack" -> << "A", "B", "C" >>
      [] c = "chain" -> << "C", "B", "A" >>

Reverse(t) == [i \in DOMAIN t |-> t[Len(t) + 1 - i]]

\* The callbacks with an invocation in request r.
CallbacksRun(r) ==
    {frames[f].h.callback : f \in {g \in FramesOf(r) : IsMiddlewareHandler(g)}}

RECURSIVE Added(_)

\* The callbacks composite j was given, in the order of the calls that gave
\* them: that of the stackMiddleware/chainMiddleware call first, then one
\* for each add on the way to j.
Added(j) ==
    IF made[j].op = "add" THEN Append(Added(made[j].of), made[j].m) ELSE << made[j].m >>

\* The callbacks of composite j from the outermost to the innermost.
ExpectedOrder(j) ==
    IF made[1].op = "stack" THEN Added(j) ELSE Reverse(Added(j))

(* C1: mergeMiddleware(a, b)(h) and a(b(h)) give the same sequence of       *)
(* events, with the same request attributes visible at each event, the same *)
(* response writes and the same outcome, for any callbacks a, b and any h.  *)
C1_MergeIsNesting ==
    /\ PrefixComparable(log[1], log[2])
    /\ PrefixComparable(res[1], res[2])
    /\ (Quiescent(1) /\ Quiescent(2)) =>
          /\ log[1] = log[2]
          /\ res[1] = res[2]
          /\ Outcome(1) = Outcome(2)

C1_Witness ==
    /\ Quiescent(1) /\ Quiescent(2)
    /\ {log[1][i].who : i \in DOMAIN log[1]} = {"A", "B", "H"}
    /\ \E i \in DOMAIN log[1] : log[1][i].who = "H" /\ log[1][i].attrs = {"A", "B"}
    /\ cbKind["A"] # cbKind["B"]

(* C2: with a and b awaiting next(), mergeMiddleware(a, b)(h) starts a's    *)
(* callback, whose next() starts b's callback, whose next() starts h; the   *)
(* code after next() runs for b and then for a; h runs exactly once.        *)
C2_Expected ==
    << <<"A", "pre">>, <<"B", "pre">>, <<"H", "run">>, <<"B", "post">>, <<"A", "post">> >>

C2_MergeOrder ==
    (cbKind["A"] = "await" /\ cbKind["B"] = "await") =>
        /\ IsPrefix(Tags(log[1]), C2_Expected)
        /\ Cardinality(HandlerFrames(1, "H")) <= 1
        /\ \A f \in FramesOf(1) :
              /\ Who(frames[f].h) = "B"
                    => frames[f].caller # 0 /\ Who(frames[frames[f].caller].h) = "A"
              /\ Who(frames[f].h) = "H"
                    => frames[f].caller # 0 /\ Who(frames[frames[f].caller].h) = "B"
              /\ Who(frames[f].h) = "A" => f = root[1]
        /\ Outcome(1) = "ok" =>
              /\ Tags(log[1]) = C2_Expected
              /\ Cardinality(HandlerFrames(1, "H")) = 1

C2_Witness ==
    /\ cbKind["A"] = "await" /\ cbKind["B"] = "await"
    /\ Outcome(1) = "ok"
    /\ Tags(log[1]) = C2_Expected

(* C3: with a, b, c awaiting next(), stackMiddleware(a).add(b).add(c)(h)    *)
(* runs the code before next() in the order a, b, c, then h, and the code   *)
(* after next() in the order c, b, a; nothing is skipped when h succeeds.   *)
C3_StackOrder ==
    (via[1].c = "stack" /\ \A c \in Callbacks : AwaitsNext(cbKind[c])) =>
        /\ IsPrefix(Entries(log[1]), << "A", "B", "C", "H" >>)
        /\ IsSubseq(Exits(log[1]), << "C", "B", "A" >>)
        /\ EntriesFirst(log[1])
        /\ (Outcome(1) = "ok" /\ hKind["H"] \in {"sync", "async"}) =>
              /\ Entries(log[1]) = << "A", "B", "C", "H" >>
              /\ Exits(log[1]) = << "C", "B", "A" >>

C3_Witness ==
    /\ via[1].c = "stack"
    /\ cbKind = [A |-> "await", B |-> "ioawait", C |-> "try"]
    /\ hKind["H"] = "async"
    /\ Outcome(1) = "ok"
    /\ Exits(log[1]) = << "C", "B", "A" >>

(* C4: with a, b, c awaiting next(), chainMiddleware(a).add(b).add(c)(h)    *)
(* runs the code before next() in the order c, b, a, then h, and the code   *)
(* after next() in the order a, b, c: the composite is c(b(a(h))).          *)
C4_ChainOrder ==
    (via[1].c = "chain" /\ \A c \in Callbacks : AwaitsNext(cbKind[c])) =>
        /\ IsPrefix(Entries(log[1]), << "C", "B", "A", "H" >>)
        /\ IsSubseq(Exits(log[1]), << "A", "B", "C" >>)
        /\ EntriesFirst(log[1])
        /\ frames[root[1]].h = Apply(mC, Apply(mB, Apply(mA, Handler("H"))))
        /\ (Outcome(1) = "ok" /\ hKind["H"] \in {"sync", "async"}) =>
              /\ Entries(log[1]) = << "C", "B", "A", "H" >>
              /\ Exits(log[1]) = << "A", "B", "C" >>

C4_Witness ==
    /\ via[1].c = "chain"
    /\ cbKind = [A |-> "ioawait", B |-> "await", C |-> "await"]
    /\ hKind["H"] = "sync"
    /\ Outcome(1) = "ok"
    /\ Exits(log[1]) = << "A", "B", "C" >>

(* C5: a request through composite x runs the callbacks x was built with,  *)
(* in x's order, and nothing else, whatever add calls were made on x or on  *)
(* the composites derived from it, before or after the request; two         *)
(* requests through x, one before and one after an add, see the same events.*)
C5_AddLeavesReceiver ==
    /\ \A r \in Requests : via[r].x # 0 =>
          /\ IsPrefix(Entries(log[r]), Append(ExpectedOrder(via[r].x), "H"))
          /\ IsPrefix(Exits(log[r]), Reverse(ExpectedOrder(via[r].x)))
          /\ Quiescent(r) =>
                /\ Entries(log[r]) = Append(ExpectedOrder(via[r].x), "H")
                /\ Exits(log[r]) = Reverse(ExpectedOrder(via[r].x))
    /\ \A r1, r2 \in Requests :
          (via[r1].x # 0 /\ via[r1].x = via[r2].x) =>
              /\ PrefixComparable(log[r1], log[r2])
              /\ (Quiescent(r1) /\ Quiescent(r2)) =>
                    log[r1] = log[r2] /\ res[r1] = res[r2]

C5_Witness ==
    /\ Quiescent(1) /\ Quiescent(2)
    /\ via[1].x = 1 /\ via[2].x = 1
    /\ via[1].n = 1 /\ via[2].n = 3
    /\ made[2] = [op |-> "add", of |-> 1, m |-> "B"]
    /\ made[3].of = 2
    /\ Tags(log[2]) = << <<"A", "pre">>, <<"H", "run">>, <<"A", "post">> >>

(* C6: of two composites derived from the same composite by two add calls,  *)
(* a request through one runs the callbacks of the common composite and the *)
(* callback of its own add, and never the callback given to the other add.  *)
C6_SiblingsApart ==
    \A j1, j2 \in DOMAIN made :
        (/\ j1 # j2
         /\ made[j1].op = "add" /\ made[j2].op = "add"
         /\ made[j1].of = made[j2].of) =>
            \A r \in Requests : via[r].x = j1 =>
                /\ CallbacksRun(r) \subseteq
                        Range(Added(made[j1].of)) \cup {made[j1].m}
                /\ made[j2].m \notin Range(Added(j1)) =>
                        \A i \in DOMAIN log[r] : log[r][i].who # made[j2].m
                /\ Quiescent(r) =>
                        CallbacksRun(r) = Range(Added(made[j1].of)) \cup {made[j1].m}

C6_Witness ==
    /\ Len(made) = 3
    /\ made[2] = [op |-> "add", of |-> 1, m |-> "B"]
    /\ made[3] = [op |-> "add", of |-> 1, m |-> "C"]
    /\ via[1].x = 2 /\ via[1].n = 2
    /\ via[2].x = 3
    /\ Quiescent(1) /\ Quiescent(2)
    /\ CallbacksRun(1) = {"A", "B"}
    /\ CallbacksRun(2) = {"A", "C"}

(* C7: a callback that returns without calling next() starts no invocation  *)
(* of the handler it wraps; in a composition nothing nested inside it runs, *)
(* the terminal handler included, and the callbacks outside it that awaited *)
(* next() run their code after next() and complete.                         *)
C7_ShortCircuit ==
    /\ \A f \in DOMAIN frames :
          (IsMiddlewareHandler(f) /\ KindOf(f) = "short") =>
              /\ Descendants(f) = {}
              /\ Quiescent(frames[f].req) =>
                    \A p \in Ancestors(f) : AwaitsNext(KindOf(p)) =>
                        /\ frames[p].st = "ok"
                        /\ \E i \in DOMAIN log[frames[p].req] :
                              /\ log[frames[p].req][i].who = frames[p].h.callback
                              /\ log[frames[p].req][i].tag = "post"
    /\ via[1].c # "" =>
          \A k \in DOMAIN Order(via[1].c) :
              cbKind[Order(via[1].c)[k]] = "short" =>
                  /\ HandlerFrames(1, "H") = {}
                  /\ \A i \in DOMAIN log[1] :
                        /\ log[1][i].who # "H"
                        /\ \A j \in DOMAIN Order(via[1].c) :
                              j > k => log[1][i].who # Order(via[1].c)[j]

C7_Witness ==
    /\ via[1].c = "stack"
    /\ cbKind = [A |-> "await", B |-> "short", C |-> "await"]
    /\ Quiescent(1)
    /\ Tags(log[1]) = << <<"A", "pre">>, <<"B", "pre">>, <<"A", "post">> >>
    /\ res[1] = << [by |-> "B", status |-> 401] >>

(* C8 as stated: once a callback has resumed from await next(), every       *)
(* invocation of the inner chain (callbacks and terminal handler) is over.  *)
C8_Original ==
    \A g \in DOMAIN frames :
        (frames[g].caller # 0 /\ CallMode(g) \in {"await", "try"} /\ ResumedAfter(g)) =>
            \A d \in {g} \cup Descendants(g) : Settled(d)

(* C8 amended: once a callback has resumed from await next(), the wrapped   *)
(* handler's invocation and every invocation below it that was reached      *)
(* through awaited next() calls are over.                                   *)
C8_AwaitedChainOver ==
    \A g \in DOMAIN frames :
        (frames[g].caller # 0 /\ CallMode(g) \in {"await", "try"} /\ ResumedAfter(g)) =>
            \A d \in AwaitedFrom(g) : Settled(d)

C8_Witness ==
    \E g \in DOMAIN frames :
        /\ frames[g].caller = root[1]
        /\ via[1].c = "chain"
        /\ CallMode(g) = "await" /\ ResumedAfter(g)
        /\ Cardinality(AwaitedFrom(g)) = 3
        /\ \E d \in AwaitedFrom(g) : frames[d].h = Handler("H") /\ hKind["H"] = "async"
        /\ frames[root[1]].st = "run"

(* C9 as stated: a failure in a callback or in the handler ends the         *)
(* outermost invocation as failed, unless a callback on the path caught it. *)
C9_Original ==
    \A r \in Requests : Quiescent(r) =>
        \A d \in FramesOf(r) :
            (/\ Threw(d)
             /\ \A e \in ({d} \cup Ancestors(d)) \ {root[r]} : CallMode(e) # "try")
                => Outcome(r) = "err"

(* C9 amended: a failure ends the outermost invocation as failed when every *)
(* call of next() on the path was awaited outside a try/catch, or was not   *)
(* awaited and the failure is the raise of a plain (not async) handler.     *)
C9_FailurePropagates ==
    \A r \in Requests : Quiescent(r) =>
        \A d \in FramesOf(r) :
            (/\ Threw(d)
             /\ \A e \in ({d} \cup Ancestors(d)) \ {root[r]} :
                    \/ CallMode(e) = "await"
                    \/ CallMode(e) = "fire" /\ ~IsAsync(frames[e].h))
                => Outcome(r) = "err"

C9_Witness ==
    /\ via[1].c = "stack"
    /\ cbKind = [A |-> "await", B |-> "ioawait", C |-> "await"]
    /\ hKind["H"] = "asyncThrow"
    /\ Quiescent(1)
    /\ \E d \in HandlerFrames(1, "H") : frames[d].st = "err"
    /\ Outcome(1) = "err"

\* The registration call that stores a handler for an upper-case method.
KeyOf(method) ==
    CASE method = "GET" -> "get"
      [] method = "POST" -> "post"
      [] method = "PUT" -> "put"
      [] method = "PATCH" -> "patch"
      [] method = "DELETE" -> "delete"
      [] OTHER -> "none"

\* A handler was registered for the method by one of the first n calls.
RegisteredAt(n, method) ==
    \E j \in 1..n : made[j].op = KeyOf(ToUpperCase(method))

\* Request r went to a dispatcher with a method no handler was registered
\* for when it arrived.
Unregistered(r) ==
    /\ root[r] # 0
    /\ frames[root[r]].h.t = "dispatcher"
    /\ ~Not(req[r].method)
    /\ ~RegisteredAt(via[r].n, req[r].method)

(* C10: a request with a method that has no registered handler gets the     *)
(* response 405 from the dispatcher and nothing else; no handler and no     *)
(* middleware is invoked for it, and the dispatcher's invocation completes  *)
(* as a success.                                                            *)
C10_Unregistered405 ==
    \A r \in Requests : Unregistered(r) =>
        /\ FramesOf(r) = {root[r]}
        /\ log[r] = <<>>
        /\ Outcome(r) \in {"run", "ok"}
        /\ IsPrefix(res[r], << [by |-> frames[root[r]].h.id, status |-> 405] >>)
        /\ Quiescent(r) =>
              /\ Outcome(r) = "ok"
              /\ res[r] = << [by |-> frames[root[r]].h.id, status |-> 405] >>

C10_Witness ==
    /\ Unregistered(1)
    /\ req[1].method = "delete"
    /\ via[1].n = 2
    /\ made[1].op = "get" /\ made[2].op = "post"
    /\ config["D"].default = mB
    /\ Quiescent(1)
    /\ res[1] = << [by |-> "D", status |-> 405] >>

\* Request r went to a dispatcher without a method: undefined or empty.
Methodless(r) ==
    /\ root[r] # 0
    /\ frames[root[r]].h.t = "dispatcher"
    /\ req[r].method \in {NoMethod, ""}

(* C11: a request whose method is undefined or the empty string gets the    *)
(* response 500 from the dispatcher and nothing else (never the 405 of an   *)
(* unsupported method); no handler and no middleware is invoked for it, and *)
(* the dispatcher's invocation completes as a success.                      *)
C11_Methodless500 ==
    \A r \in Requests : Methodless(r) =>
        /\ FramesOf(r) = {root[r]}
        /\ log[r] = <<>>
        /\ Outcome(r) \in {"run", "ok"}
        /\ \A i \in DOMAIN res[r] : res[r][i].status # 405
        /\ IsPrefix(res[r], << [by |-> frames[root[r]].h.id, status |-> 500] >>)
        /\ Quiescent(r) =>
              /\ Outcome(r) = "ok"
              /\ res[r] = << [by |-> frames[root[r]].h.id, status |-> 500] >>

C11_Witness ==
    /\ Methodless(1)
    /\ req[1].method = ""
    /\ via[1].n = 2
    /\ made[1].op = "get" /\ made[2].op = "delete"
    /\ Quiescent(1)
    /\ res[1] = << [by |-> "D", status |-> 500] >>

\* The registration key of the method of request r ("none": no such key).
KeyOfRequest(r) ==
    IF req[r].method = NoMethod THEN "none" ELSE KeyOf(ToUpperCase(req[r].method))

\* Request r went to a dispatcher that had a handler registered for its method.
Registered(r) ==
    /\ root[r] # 0
    /\ frames[root[r]].h.t = "dispatcher"
    /\ req[r].method # NoMethod
    /\ RegisteredAt(via[r].n, req[r].method)

\* The dispatcher of request r has made its call of the method's handler.
Dispatched(r) ==
    \E f \in FramesOf(r) : frames[f].caller = root[r]

(* C12: a request whose method has a registered handler and a middleware    *)
(* configured for that very method runs that middleware's callback and the  *)
(* callback of no other middleware of the config, default included.         *)
C12_OwnMiddlewareOnly ==
    \A r \in Requests :
        (Registered(r) /\ config[frames[root[r]].h.id][KeyOfRequest(r)] # Undefined) =>
            LET own == config[frames[root[r]].h.id][KeyOfRequest(r)].callback
            IN /\ CallbacksRun(r) \subseteq {own}
               /\ \A i \in DOMAIN log[r] : log[r][i].who \in {own, "H", "G"}
               /\ \A i \in DOMAIN log[r] : log[r][i].attrs \subseteq {own}
               /\ Dispatched(r) => CallbacksRun(r) = {own}
               /\ Quiescent(r) =>
                     \E i \in DOMAIN log[r] :
                         log[r][i].who = own /\ log[r][i].tag = "pre"

C12_Witness ==
    /\ Registered(1)
    /\ req[1].method = "Put"
    /\ config["D"].put = mB /\ config["D"].post = mA /\ config["D"].default = mC
    /\ made[1].op = "post" /\ made[2].op = "put"
    /\ Quiescent(1)
    /\ Tags(log[1]) = << <<"B", "pre">>, <<"H", "run">>, <<"B", "post">> >>

\* The handler given to the last of the first n calls that registered for key.
LastRegistered(n, key) ==
    made[CHOOSE j \in 1..n :
            /\ made[j].op = key
            /\ \A i \in 1..n : made[i].op = key => i <= j].m

\* The dispatcher request r went to.
DispatcherOf(r) == frames[root[r]].h.id

(* C13: a request whose method has a registered handler and no middleware   *)
(* of its own, under a config with a default middleware, runs the default   *)
(* middleware's callback and then the handler, which is wrapped by it.      *)
C13_DefaultWraps ==
    \A r \in Requests :
        (/\ Registered(r)
         /\ config[DispatcherOf(r)][KeyOfRequest(r)] = Undefined
         /\ config[DispatcherOf(r)].default # Undefined) =>
            LET dflt == config[DispatcherOf(r)].default.callback
                h == LastRegistered(via[r].n, KeyOfRequest(r))
            IN /\ IsPrefix(Entries(log[r]), << dflt, h >>)
               /\ \A f \in FramesOf(r) : frames[f].caller = root[r] =>
                     frames[f].h = middleware(dflt, Handler(h))
               /\ Quiescent(r) =>
                     /\ Entries(log[r]) = << dflt, h >>
                     /\ \E i \in DOMAIN log[r] :
                           log[r][i].who = h /\ log[r][i].attrs = {dflt}

C13_Witness ==
    /\ Registered(1)
    /\ req[1].method = "delete"
    /\ config["D"].delete = Undefined /\ config["D"].default = mC
    /\ config["D"].get = mA
    /\ Quiescent(1)
    /\ Tags(log[1]) = << <<"C", "pre">>, <<"H", "run">>, <<"C", "post">> >>
    /\ res[1] = << [by |-> "H", status |-> 200] >>

\* The handler registration has to store for key on dispatcher d, h being
\* the raw handler: wrapped once, by the key's middleware or else by the
\* default one, or not wrapped.
Resolved(d, key, h) ==
    IF config[d][key] # Undefined
    THEN [t |-> "middlewareHandler", callback |-> config[d][key].callback, handler |-> h]
    ELSE IF config[d].default # Undefined
    THEN [t |-> "middlewareHandler", callback |-> config[d].default.callback, handler |-> h]
    ELSE h

(* C14: what a registration stores for a method is the handler wrapped by   *)
(* exactly one middleware, the method's own if configured, else the default *)
(* one if configured, else the raw handler; with both configured the        *)
(* default middleware's callback does not run for a request of the method.  *)
C14_ResolvesOne ==
    /\ \A d \in Dispatchers, key \in MethodKeys :
          reg[d][key] =
              IF \E j \in DOMAIN made : made[j].op = key
              THEN Resolved(d, key, [t |-> "handler", id |-> LastRegistered(Len(made), key)])
              ELSE Undefined
    /\ \A r \in Requests : Registered(r) =>
          /\ Cardinality(CallbacksRun(r)) <= 1
          /\ Cardinality({f \in FramesOf(r) : IsMiddlewareHandler(f)}) <= 1
          /\ (/\ config[DispatcherOf(r)][KeyOfRequest(r)] # Undefined
              /\ config[DispatcherOf(r)].default # Undefined) =>
                 config[DispatcherOf(r)].default.callback \notin CallbacksRun(r)
          /\ (/\ config[DispatcherOf(r)][KeyOfRequest(r)] = Undefined
              /\ config[DispatcherOf(r)].default = Undefined) =>
                 CallbacksRun(r) = {}

C14_Witness ==
    /\ Registered(1)
    /\ req[1].method = "POST"
    /\ config["D"].post = mA /\ config["D"].default = mC /\ config["D"].patch = mB
    /\ made[1].op = "patch" /\ made[2].op = "post"
    /\ reg["D"].post = [t |-> "middlewareHandler", callback |-> "A",
                        handler |-> [t |-> "handler", id |-> "H"]]
    /\ Quiescent(1)
    /\ CallbacksRun(1) = {"A"}

RECURSIVE Terminal(_)

\* The raw handler inside a stored handler, under its middleware wrapping.
Terminal(h) == IF h.t = "middlewareHandler" THEN Terminal(h.handler) ELSE h

(* C15: the handler stored for a method is the one given to the most recent *)
(* registration for that method, whatever was registered for other methods  *)
(* before or after; a request is dispatched to the handler of the most      *)
(* recent registration for its method made before it arrived, and to no     *)
(* other handler.                                                           *)
C15_LastWriteWins ==
    /\ \A d \in Dispatchers, key \in MethodKeys :
          IF \E j \in DOMAIN made : made[j].op = key
          THEN Terminal(reg[d][key]) =
                  [t |-> "handler", id |-> LastRegistered(Len(made), key)]
          ELSE reg[d][key] = Undefined
    /\ \A r \in Requests : Registered(r) =>
          /\ \A f \in FramesOf(r) : frames[f].h.t = "handler" =>
                frames[f].h.id = LastRegistered(via[r].n, KeyOfRequest(r))
          /\ \A f \in FramesOf(r) : frames[f].caller = root[r] =>
                Terminal(frames[f].h).id = LastRegistered(via[r].n, KeyOfRequest(r))
          /\ \A i \in DOMAIN log[r] : log[r][i].who \in Handlers =>
                log[r][i].who = LastRegistered(via[r].n, KeyOfRequest(r))

C15_Witness ==
    /\ made = << [op |-> "get", of |-> 0, m |-> "H"], [op |-> "get", of |-> 0, m |-> "G"] >>
    /\ req[1].method = "GET"
    /\ via[1].n = 1 /\ via[2].n = 2
    /\ Quiescent(1) /\ Quiescent(2)
    /\ HandlerFrames(1, "H") # {} /\ HandlerFrames(1, "G") = {}
    /\ HandlerFrames(2, "G") # {} /\ HandlerFrames(2, "H") = {}

\* The invocations the dispatcher of request r started itself.
Dispatches(r) == {f \in FramesOf(r) : frames[f].caller = root[r]}

(* C16: for a request whose method has a registered handler the dispatcher  *)
(* calls the stored, already wrapped handler once and only once, with the   *)
(* request and response it was given, and writes no response itself.        *)
C16_DispatchOnce ==
    \A r \in Requests : Registered(r) =>
        /\ Cardinality(Dispatches(r)) <= 1
        /\ Settled(root[r]) => Cardinality(Dispatches(r)) = 1
        /\ \A f \in Dispatches(r) :
              /\ frames[f].h =
                    Resolved(DispatcherOf(r), KeyOfRequest(r),
                             [t |-> "handler", id |-> LastRegistered(via[r].n, KeyOfRequest(r))])
              /\ frames[f].req = r
        /\ \A f \in DOMAIN frames :
              (frames[f].caller # 0 /\ frames[frames[f].caller].h.t = "dispatcher") =>
                  frames[f].req = frames[frames[f].caller].req
        /\ \A i \in DOMAIN res[r] : res[r][i].by # DispatcherOf(r)

C16_Witness ==
    /\ Registered(1)
    /\ req[1].method = "get"
    /\ config["D"].get = mA
    /\ hKind["H"] = "async"
    /\ Quiescent(1)
    /\ Cardinality(Dispatches(1)) = 1
    /\ \A f \in Dispatches(1) : frames[f].h = middleware("A", Handler("H"))
    /\ res[1] = << [by |-> "H", status |-> 200] >>

(* C17 as stated: when the invocation of the handler the dispatcher         *)
(* selected (the stored handler, middleware included) has failed, the       *)
(* dispatcher's own invocation has failed too.                              *)
C17_Original ==
    \A r \in Requests :
        (Registered(r) /\ Quiescent(r)) =>
            \A f \in Dispatches(r) :
                frames[f].st = "err" => Outcome(r) = "err"

\* Invocation f has run a statement that writes a response.
HasWritten(f) ==
    \E i \in 1..Len(Body(frames[f].h)) :
        i < frames[f].pc /\ Body(frames[f].h)[i].op = "write"

(* C18: with two requests in flight through the same composed handler, in   *)
(* every interleaving each call of next() starts the wrapped handler on the *)
(* request and response of the invocation whose next it is; the responses   *)
(* a request received from the terminal handler are those of its own        *)
(* invocations of it, and the attributes on it those of its own callbacks.  *)
C18_OwnRequest ==
    /\ \A g \in DOMAIN frames : frames[g].caller # 0 =>
          /\ frames[g].req = frames[frames[g].caller].req
          /\ frames[g].h = frames[frames[g].caller].h.handler
    /\ \A r \in Requests :
          /\ Cardinality({i \in DOMAIN res[r] : res[r][i].by = "H"})
                = Cardinality({f \in HandlerFrames(r, "H") : HasWritten(f)})
          /\ req[r].attrs \subseteq CallbacksRun(r)

\* Request 1 called next() while request 2 was in flight, and conversely.
C18_Witness ==
    \E f1, g1 \in FramesOf(1), f2, g2 \in FramesOf(2) :
        /\ f1 < f2 /\ f2 < g1 /\ g1 < g2
        /\ frames[g1].caller = f1
        /\ frames[g2].caller = f2
        /\ Quiescent(1) /\ Quiescent(2)
        /\ res[1] = << [by |-> "H", status |-> 200] >>
        /\ res[2] = << [by |-> "H", status |-> 200] >>

\* Every callback of the run awaits its call of next().
AllAwait == \A c \in Callbacks : AwaitsNext(cbKind[c])

(* C19: with two requests in flight through the same composed handler and   *)
(* any interleaving of their suspension points, each request sees the code  *)
(* before next() in the order of the composition, outermost first and the   *)
(* handler last; when every callback awaits next(), each request sees the   *)
(* code after next() in the reverse order and the two requests see the same *)
(* sequence of events, as a request alone does.                             *)
C19_OrderPerRequest ==
    /\ \A r \in Requests : root[r] # 0 =>
          /\ IsPrefix(Entries(log[r]), Append(Order(via[r].c), "H"))
          /\ AllAwait =>
                /\ IsSubseq(Exits(log[r]), Reverse(Order(via[r].c)))
                /\ EntriesFirst(log[r])
                /\ (Outcome(r) = "ok" /\ hKind["H"] \in {"sync", "async"}) =>
                      /\ Entries(log[r]) = Append(Order(via[r].c), "H")
                      /\ Exits(log[r]) = Reverse(Order(via[r].c))
    /\ AllAwait =>
          /\ PrefixComparable(Tags(log[1]), Tags(log[2]))
          /\ (Quiescent(1) /\ Quiescent(2)) => Tags(log[1]) = Tags(log[2])

\* Request 2 arrived and ran while request 1 was suspended, and request 1
\* went on while request 2 was suspended.
C19_Witness ==
    /\ AllAwait
    /\ cbKind["B"] = "ioawait"
    /\ hKind["H"] = "async"
    /\ via[1].c = "chain" /\ via[2].c = "chain"
    /\ Quiescent(1) /\ Quiescent(2)
    /\ Outcome(1) = "ok" /\ Outcome(2) = "ok"
    /\ \E g1 \in FramesOf(1), f2, g2 \in FramesOf(2) : f2 < g1 /\ g1 < g2
    /\ Entries(log[1]) = << "C", "B", "A", "H" >>
    /\ Exits(log[2]) = << "A", "B", "C" >>

\* The calls of next() invocation f has made so far.
NextsCalled(f) ==
    Cardinality({i \in 1..Len(Body(frames[f].h)) :
        /\ Body(frames[f].h)[i].op = "next"
        /\ \/ i < frames[f].pc
           \/ /\ i = frames[f].pc
              /\ (frames[f].callee # 0 \/ frames[f].st \in {"await", "err"})})

\* The invocations f started itself.
Children(f) == {g \in DOMAIN frames : frames[g].caller = f}

\* g and everything below it ran to a successful end.
RanThrough(g) == \A d \in {g} \cup Descendants(g) : frames[d].st = "ok"

\* The handler values invoked at or below g, each with its number of
\* invocations.
Invoked(g) ==
    {<<v, Cardinality({d \in {g} \cup Descendants(g) : frames[d].h = v})>> :
        v \in {frames[d].h : d \in {g} \cup Descendants(g)}}

\* The number of next() calls in a callback that runs to its end.
NextCount(k) ==
    Cardinality({i \in 1..Len(CallbackBody(k)) : CallbackBody(k)[i].op = "next"})

RECURSIVE Product(_)
Product(t) == IF t = <<>> THEN 1 ELSE NextCount(cbKind[Head(t)]) * Product(Tail(t))

(* C20: an invocation made by createMiddleware has started the handler it   *)
(* wraps once for each call of next() its callback has made, be it none,    *)
(* one or two; every such call ran the same wrapped handler, and when two   *)
(* of them ran to the end they ran the same inner callbacks and terminal    *)
(* handler the same number of times.                                        *)
C20_NextUnguarded ==
    /\ \A f \in DOMAIN frames : IsMiddlewareHandler(f) =>
          /\ Cardinality(Children(f)) = NextsCalled(f)
          /\ \A g \in Children(f) : frames[g].h = frames[f].h.handler
          /\ \A g1, g2 \in Children(f) :
                (RanThrough(g1) /\ RanThrough(g2)) => Invoked(g1) = Invoked(g2)
    /\ (via[1].c # "" /\ root[1] # 0 /\ RanThrough(root[1])) =>
          Cardinality(HandlerFrames(1, "H")) = Product(Order(via[1].c))

C20_Witness ==
    /\ via[1].c = "stack"
    /\ cbKind = [A |-> "twice", B |-> "await", C |-> "twice"]
    /\ RanThrough(root[1])
    /\ Cardinality(Children(root[1])) = 2
    /\ Cardinality(HandlerFrames(1, "H")) = 4
    /\ Cardinality({f \in FramesOf(1) : IsMiddlewareHandler(f) /\ frames[f].h.callback = "B"}) = 2
    /\ Len(res[1]) = 4

\* The callbacks of a form, from the outermost to the innermost.
FormOrder(x) == IF Arity(x) = 3 THEN << "C", "B", "A" >> ELSE << "A", "B" >>

\* No callback of the form calls next() without awaiting it: the request
\* then has one thing to wait for at a time, and one possible run.
OneRun(x) == \A c \in Range(FormOrder(x)) : cbKind[c] # "fire"

(* C21: stackMiddleware(a).add(b)(h), chainMiddleware(b).add(a)(h) and      *)
(* mergeMiddleware(a, b)(h) are the same nest of middlewareHandler closures *)
(* a(b(h)), and so are chainMiddleware(a).add(b).add(c)(h) and the stack of *)
(* the reversed sequence, stackMiddleware(c).add(b).add(a)(h); on a request *)
(* each, two of them run the same callbacks in the same order and end with  *)
(* the same events and outcome, and when the run of a request is            *)
(* determined (no unawaited next()) with the same events in the same order, *)
(* the same request attributes at each event and the same response writes.  *)
C21_FormsEquivalent ==
    (root[1] # 0 /\ root[2] # 0) =>
        /\ via[1].c # via[2].c
        /\ frames[root[1]].h = frames[root[2]].h
        /\ \A r \in Requests :
              IsPrefix(Entries(log[r]), Append(FormOrder(via[r].c), "H"))
        /\ (Quiescent(1) /\ Quiescent(2)) =>
              /\ Range(Tags(log[1])) = Range(Tags(log[2]))
              /\ Len(log[1]) = Len(log[2])
              /\ Range(res[1]) = Range(res[2])
              /\ Outcome(1) = Outcome(2)
        /\ OneRun(via[1].c) =>
              /\ PrefixComparable(log[1], log[2])
              /\ PrefixComparable(res[1], res[2])
              /\ (Quiescent(1) /\ Quiescent(2)) =>
                    /\ log[1] = log[2]
                    /\ res[1] = res[2]

\* A chain of three and the stack of the reversed three ran to the end.
C21_Witness ==
    /\ Quiescent(1) /\ Quiescent(2)
    /\ via[1].c = "chain(a).add(b).add(c)"
    /\ via[2].c = "stack(c).add(b).add(a)"
    /\ cbKind = [A |-> "try", B |-> "ioawait", C |-> "await"]
    /\ hKind["H"] = "async"
    /\ Entries(log[2]) = << "C", "B", "A", "H" >>
    /\ Exits(log[2]) = << "A", "B", "C" >>
    /\ Outcome(1) = "ok"
    /\ log[1] = log[2]

\* Invocation f has run a statement that assigns a field of the request.
HasSet(f) ==
    \E i \in 1..Len(Body(frames[f].h)) :
        i < frames[f].pc /\ Body(frames[f].h)[i].op = "set"

\* The callbacks of composition c outside who (a callback of c, or H).
Outer(c, who) ==
    {Order(c)[j] : j \in {i \in DOMAIN Order(c) :
                            i < Position(Append(Order(c), "H"), who)}}

(* C22: with every callback attaching its field to the request before it    *)
(* calls next(), each inner callback, when it starts, and the terminal      *)
(* handler, when it runs, see on the request the fields of all the          *)
(* callbacks outside them; and at any time the fields on a request are      *)
(* those its own invocations attached, whatever the other request in        *)
(* flight through the same composed handler carries.                        *)
C22_FieldsFlowInward ==
    \A r \in Requests : root[r] # 0 =>
        /\ \A i \in DOMAIN log[r] :
              IsEntry(log[r][i]) =>
                  Outer(via[r].c, log[r][i].who) \subseteq log[r][i].attrs
        /\ req[r].attrs = {Who(frames[f].h) : f \in {g \in FramesOf(r) : HasSet(g)}}

\* The handler of request 1 saw the fields of the three callbacks while
\* request 2, in flight through the same handler, carried none.
C22_Witness ==
    /\ via[1].c = "stack"
    /\ \E i \in DOMAIN log[1] :
          /\ log[1][i].who = "H"
          /\ log[1][i].attrs = {"A", "B", "C"}
    /\ root[2] # 0
    /\ ~Quiescent(2)
    /\ req[2].attrs = {}
    /\ req[1].attrs = {"A", "B", "C"}

\* The events and the response writes of who on request r.
EventsBy(r, who) == {log[r][i].tag : i \in {j \in DOMAIN log[r] : log[r][j].who = who}}
WritesBy(r, who) == {res[r][i].status : i \in {j \in DOMAIN res[r] : res[r][j].by = who}}

\* Invocation f runs a callback that awaits next() inside try/catch.
Guards(f) == IsMiddlewareHandler(f) /\ KindOf(f) = "try"

(* C23: an invocation whose callback awaits next() inside its own try/catch *)
(* never fails; when the wrapped handler's invocation it awaited has failed *)
(* and the callback has gone on, the callback has run its catch block and   *)
(* not the code after next(), and once it has completed it has written its  *)
(* response; no invocation outside it fails, so the outermost invocation    *)
(* completes without failure.                                               *)
C23_GuardedNext ==
    \A f \in DOMAIN frames : Guards(f) =>
        /\ frames[f].st # "err"
        /\ \A e \in Ancestors(f) : frames[e].st # "err"
        /\ \A g \in Children(f) :
              LET who == Who(frames[f].h)
                  r == frames[f].req
              IN /\ (frames[g].st = "err" /\ Settled(f)) =>
                        /\ "catch" \in EventsBy(r, who)
                        /\ "post" \notin EventsBy(r, who)
                        /\ 500 \in WritesBy(r, who)
                 /\ (frames[g].st = "err" /\ Quiescent(r)) =>
                        /\ Settled(f)
                        /\ \A e \in Ancestors(f) :
                              AwaitsNext(KindOf(e)) => frames[e].st = "ok"
                 /\ (frames[g].st = "ok" /\ Settled(f) /\ Cardinality(FramesOf(r) \cap
                        {h \in DOMAIN frames : Guards(h) /\ Who(frames[h].h) = who}) = 1) =>
                        /\ "post" \in EventsBy(r, who)
                        /\ WritesBy(r, who) = {}

\* b catches the failure c let through from an async handler: b answers 500,
\* a runs its code after next() and the outermost invocation succeeds.
C23_Witness ==
    /\ via[1].c = "stack"
    /\ cbKind = [A |-> "await", B |-> "try", C |-> "await"]
    /\ hKind["H"] = "asyncThrow"
    /\ Quiescent(1)
    /\ Outcome(1) = "ok"
    /\ res[1] = << [by |-> "B", status |-> 500] >>
    /\ Tags(log[1]) = << <<"A", "pre">>, <<"B", "pre">>, <<"C", "pre">>, <<"H", "run">>,
                         <<"B", "catch">>, <<"A", "post">> >>
    /\ \E f \in FramesOf(1) : Who(frames[f].h) = "C" /\ frames[f].st = "err"

\* A step that composes or registers: createMiddleware and a middleware
\* applied to a handler happen within these calls.
Composes ==
    made' # made \/ composites' # composites \/ reg' # reg \/ config' # config

(* C24: a step that composes middleware (stackMiddleware, chainMiddleware,  *)
(* add, with the createMiddleware and mergeMiddleware calls they make) or   *)
(* registers a handler with the dispatcher starts no invocation, runs no    *)
(* statement of a callback or handler and touches no request or response;   *)
(* and every invocation there is belongs to a request that was handed to a  *)
(* composed handler or to the dispatcher.                                   *)
C24_ComposingRunsNothing ==
    /\ [](\A f \in DOMAIN frames :
            /\ root[frames[f].req] # 0
            /\ root[frames[f].req] <= f
            /\ frames[f].caller = 0 => root[frames[f].req] = f)
    /\ [](\A r \in Requests : root[r] = 0 => (log[r] = <<>> /\ res[r] = <<>>))
    /\ [][Composes => UNCHANGED <<frames, stack, root, req, res, log>>]_vars

\* Handlers were registered and a stack extended, before and after a
\* request ran, and the request not yet made has run nothing.
C24_Witness ==
    /\ Len(composites) = MaxComposites
    /\ \E i \in DOMAIN made : made[i].op \in {"post", "get", "put", "patch", "delete"}
    /\ Quiescent(1)
    /\ via[1].n < Len(made)
    /\ via[1].n > 0
    /\ Len(log[1]) > 0
    /\ root[2] = 0
    /\ Len(frames) = Cardinality(FramesOf(1))

\* Composite x with another value assigned to its property kind.
Retagged(x, k) == [x EXCEPT !.kind = k]

(* C25: every composite made from stackMiddleware(m) by any number of add   *)
(* calls has kind "stack" and every composite made from chainMiddleware(m)  *)
(* has kind "chain"; whatever value the kind property holds, applying the   *)
(* composite to a handler gives the same handler and add gives the same     *)
(* composite, and the handler a request runs is its middleware applied to   *)
(* the handler, with no kind in it.                                         *)
C25_KindIsInert ==
    /\ \A i \in DOMAIN composites :
          /\ composites[i].kind = made[1].op
          /\ \A k \in {"stack", "chain", "none"} :
                /\ Apply(Retagged(composites[i], k), Handler("H"))
                      = Apply(composites[i], Handler("H"))
                /\ Add(Retagged(composites[i], k), mB) = Add(composites[i], mB)
    /\ \A r \in Requests : root[r] # 0 =>
          frames[root[r]].h = Apply(composites[via[r].x].middlewareA, Handler("H"))

\* A chain extended twice, and a request that ran through the last
\* composite.
C25_Witness ==
    /\ Len(composites) = MaxComposites
    /\ made[1].op = "chain"
    /\ \A i \in DOMAIN composites : composites[i].kind = "chain"
    /\ made[MaxComposites].of = MaxComposites - 1
    /\ via[1].x = MaxComposites
    /\ Quiescent(1)
    /\ Outcome(1) = "ok"

\* The invocation f started from statement i of its callback (0: none).
ChildAt(f, i) ==
    IF \E g \in Children(f) : frames[g].site = i
    THEN CHOOSE g \in Children(f) : frames[g].site = i
    ELSE 0

\* What the callback of a completed invocation f produced: the result of
\* next() for a callback that ends with return next(), else undefined.
Produced(f) ==
    LET body == CallbackBody(KindOf(f))
    IN IF body[Len(body)].op = "next" /\ body[Len(body)].arg = "return"
       THEN frames[ChildAt(f, Len(body))].val
       ELSE "undefined"

\* The callback of f stopped at a statement that raised: a throw, or a call
\* of next() outside try/catch whose invocation failed.
CallbackRaised(f) ==
    \/ At(frames[f]).op = "throw"
    \/ /\ At(frames[f]).op = "next"
       /\ At(frames[f]).arg # "try"
       /\ ChildAt(f, frames[f].pc) # 0
       /\ frames[ChildAt(f, frames[f].pc)].st = "err"

(* C26: an invocation made by createMiddleware that has completed succeeded *)
(* exactly when its callback ran to its end, and its value is then the      *)
(* value the callback returned (the wrapped handler's own value for a       *)
(* callback that returns next(), undefined otherwise); it failed exactly    *)
(* when the callback raised; and a callback that has gone on after an       *)
(* awaited or returned next() did so after the wrapped handler's invocation *)
(* completed, taking its failure as an exception and its value as the       *)
(* result.                                                                  *)
C26_OutcomesPassThrough ==
    \A f \in DOMAIN frames : IsMiddlewareHandler(f) =>
        /\ Settled(f) =>
              /\ frames[f].st = "ok" <=> frames[f].pc > Len(CallbackBody(KindOf(f)))
              /\ frames[f].st = "ok" => frames[f].val = Produced(f)
              /\ frames[f].st = "err" <=> CallbackRaised(f)
        /\ \A g \in Children(f) :
              (CallMode(g) \in {"await", "return", "try"} /\ ResumedAfter(g)) =>
                  /\ Settled(g)
                  /\ (frames[g].st = "err" /\ CallMode(g) # "try") => frames[f].st = "err"
                  /\ (frames[g].st = "err" /\ CallMode(g) = "try") =>
                        frames[f].pc >= Body(frames[f].h)[frames[g].site].to
                  /\ (frames[g].st = "ok" /\ CallMode(g) = "try") =>
                        frames[f].pc < Body(frames[f].h)[frames[g].site].to
                           \/ frames[f].pc > Len(Body(frames[f].h))

\* Three callbacks that return next() around an async handler that returns
\* a value: the outermost invocation's value is the handler's.
C26_Witness ==
    /\ via[1].c = "chain"
    /\ cbKind = [A |-> "return", B |-> "return", C |-> "return"]
    /\ hKind["H"] = "asyncValue"
    /\ Quiescent(1)
    /\ Outcome(1) = "ok"
    /\ frames[root[1]].val = "done"
    /\ \A f \in FramesOf(1) : frames[f].val = "done"
    /\ Cardinality(FramesOf(1)) = 4

\* Invocation f waits for something that never comes.
Hung(f) == frames[f].st = "hang"

\* Request r is one its callback b never completes on.
Stalls(r) == req[r].method = "POST"

(* C27 as stated: once a callback of a request neither calls next() nor     *)
(* completes, the invocation of the composed handler for that request does  *)
(* not complete.                                                            *)
C27_Original ==
    \A f \in DOMAIN frames : Hung(f) => ~Settled(root[frames[f].req])

(* C27: an invocation whose callback neither calls next() nor completes     *)
(* stays as it is for ever, the handler it wraps is never started, and no   *)
(* invocation that reached it through awaited next() calls completes (the   *)
(* composed handler's own invocation, when every callback outside awaits    *)
(* next()); a request made to the same composed handler, before or after,   *)
(* on which no callback stalls runs to completion and gets the handler's    *)
(* response.                                                                *)
C27_StallIsLocal ==
    /\ [][\A f \in DOMAIN frames : Hung(f) => frames'[f] = frames[f]]_vars
    /\ [](\A f \in DOMAIN frames : Hung(f) =>
            /\ Children(f) = {}
            /\ \A e \in Ancestors(f) : f \in AwaitedFrom(e) => ~Settled(e))
    /\ \A r \in Requests :
          (root[r] # 0 /\ ~Stalls(r)) ~>
              /\ Quiescent(r)
              /\ Outcome(r) = "ok"
              /\ res[r] = << [by |-> "H", status |-> 200] >>

\* Request 1 stalled in b before request 2 was made, and request 2 ran to
\* completion through the same handler.
C27_Witness ==
    /\ Stalls(1) /\ ~Stalls(2)
    /\ via[1].c = "stack"
    /\ \E f \in FramesOf(1) : Hung(f) /\ Who(frames[f].h) = "B" /\ f < root[2]
    /\ ~Settled(root[1])
    /\ res[1] = <<>>
    /\ Quiescent(2)
    /\ Outcome(2) = "ok"
    /\ res[2] = << [by |-> "H", status |-> 200] >>

\* The middleware callback that wraps h for the method of request r.
WrapperOf(r) == IF ToUpperCase(req[r].method) = "POST" THEN "A" ELSE "B"

\* What h alone logs and writes, so far as it has run.
AloneLog == << <<"H", "run">> >>
AloneRes == IF hKind["H"] \in {"sync", "async"}
            THEN << [by |-> "H", status |-> 200] >> ELSE <<>>

(* C28: a(h) and b(h) having been made from the same h, any number of       *)
(* times, h invoked directly runs alone: one invocation, no callback, its   *)
(* own event and response only; the handler stored for POST is a wrapped    *)
(* around that same h and runs callback a and never b, the one stored for   *)
(* GET is b around h and runs b and never a, and each runs h at most once.  *)
C28_WrappingLeavesHandler ==
    /\ \A d \in Dispatchers :
          /\ reg[d].post \in {Undefined, middleware("A", Handler("H"))}
          /\ reg[d].get \in {Undefined, middleware("B", Handler("H"))}
    /\ \A r \in Requests : root[r] # 0 =>
          IF via[r].c = "raw"
          THEN /\ FramesOf(r) = {root[r]}
               /\ frames[root[r]].h = Handler("H")
               /\ IsPrefix(Tags(log[r]), AloneLog)
               /\ IsPrefix(res[r], AloneRes)
               /\ Quiescent(r) => (Tags(log[r]) = AloneLog /\ res[r] = AloneRes)
          ELSE /\ CallbacksRun(r) \subseteq {WrapperOf(r)}
               /\ \A i \in DOMAIN log[r] : log[r][i].who \in {WrapperOf(r), "H"}
               /\ req[r].attrs \subseteq {WrapperOf(r)}
               /\ Cardinality(HandlerFrames(r, "H")) <= 1
               /\ \A f \in HandlerFrames(r, "H") :
                     frames[f].caller # 0 /\ Who(frames[frames[f].caller].h) = WrapperOf(r)

\* h was wrapped by a and by b; then a GET request ran b and h, and h
\* invoked directly ran alone.
C28_Witness ==
    /\ via[1].c = "dispatch" /\ via[1].n = 2
    /\ req[1].method = "GET"
    /\ via[2].c = "raw"
    /\ \A d \in Dispatchers :
          /\ reg[d].post = middleware("A", Handler("H"))
          /\ reg[d].get = middleware("B", Handler("H"))
    /\ Quiescent(1) /\ Quiescent(2)
    /\ Tags(log[1]) = << <<"B", "pre">>, <<"H", "run">>, <<"B", "post">> >>
    /\ Tags(log[2]) = AloneLog
    /\ log[2][1].attrs = {}
    /\ res[2] = << [by |-> "H", status |-> 200] >>

\* The dispatcher of request r has done its lookup.
LookedUp(r) ==
    /\ root[r] # 0
    /\ \/ frames[root[r]].pc > 1
       \/ frames[root[r]].callee # 0
       \/ Dispatched(r)

\* The handlers the dispatcher of request r has called.
Reached(r) == {frames[f].h : f \in Dispatches(r)}

(* C29: a request whose method is any spelling (upper-case, lower-case,     *)
(* capitalised, mixed) of GET, POST, PUT, PATCH or DELETE is dispatched to  *)
(* the handler stored by the last registration for that method, or answered *)
(* 405 when there was none; a request with the upper-case spelling going to *)
(* the dispatcher after the same registrations reaches the same handler and *)
(* ends with the same events and response.                                  *)
C29_CaseInsensitive ==
    /\ \A r \in Requests : LookedUp(r) =>
          LET key == KeyOf(MethodOf(req[r].method))
              n == via[r].n
          IN IF \E j \in 1..n : made[j].op = key
             THEN /\ Reached(r) =
                        {Resolved(DispatcherOf(r), key, Handler(LastRegistered(n, key)))}
                  /\ \A i \in DOMAIN res[r] : res[r][i].by # DispatcherOf(r)
             ELSE /\ Reached(r) = {}
                  /\ res[r] = << [by |-> DispatcherOf(r), status |-> 405] >>
    /\ (LookedUp(1) /\ LookedUp(2) /\ via[1].n = via[2].n) =>
          /\ Reached(1) = Reached(2)
          /\ (Quiescent(1) /\ Quiescent(2)) =>
                (Tags(log[1]) = Tags(log[2]) /\ res[1] = res[2])

\* A mixed-case DELETE and an upper-case DELETE reached the same handler.
C29_Witness ==
    /\ req[1].method = "deLETe"
    /\ req[2].method = "DELETE"
    /\ via[1].n > 0
    /\ \E j \in 1..via[1].n : made[j].op = "delete"
    /\ via[1].n = via[2].n
    /\ Quiescent(1) /\ Quiescent(2)
    /\ Reached(1) # {}
    /\ Reached(1) = Reached(2)
    /\ res[1] = << [by |-> "H", status |-> 200] >>
    /\ res[2] = res[1]

\* Invocation f is one of a dispatcher.
IsDispatcher(f) == frames[f].h.t = "dispatcher"

(* C30 as stated: an invocation of a dispatcher that has completed called a *)
(* method handler whose invocation has completed, and a callback that       *)
(* awaits next() around the dispatcher has run its code after next() only   *)
(* once everything the dispatcher started has completed.                    *)
C30_Original ==
    \A f \in DOMAIN frames : IsDispatcher(f) =>
        /\ Settled(f) => \A g \in Children(f) : Settled(g)
        /\ (frames[f].caller # 0 /\ "post" \in EventsBy(frames[f].req, Who(frames[frames[f].caller].h)))
              => \A g \in Descendants(f) : Settled(g)

Completed(r) ==
    /\ root[r] # 0
    /\ \A f \in FramesOf(r) : Settled(f)

(* C32: when every callback of a composition awaits each of its next()      *)
(* calls, calls it at most twice and returns or throws, and the handler     *)
(* returns or throws, every invocation of the composed handler is           *)
(* eventually over: its promise is settled and so is every invocation it    *)
(* made; and a function that is suspended waits at a statement of its own   *)
(* code, an await of next() or an external operation.                       *)
C32_InvocationsComplete ==
    /\ \A r \in Requests : (root[r] # 0) ~> Completed(r)
    /\ [](\A f \in DOMAIN frames :
            frames[f].st \in {"await", "io"} => At(frames[f]).op \in {"next", "io"})

\* A request through a(b(c(h))), a calling next() twice, b waiting for an
\* external operation first and h failing after a suspension, is over:
\* the failure ended a at its first next(), and the handler ran once.
C32_Witness ==
    /\ cbKind["A"] = "twice" /\ cbKind["B"] = "ioawait" /\ cbKind["C"] = "await"
    /\ hKind["H"] = "asyncThrow"
    /\ via[1].c = "chain"
    /\ Completed(1)
    /\ Cardinality(HandlerFrames(1, "H")) = 1
    /\ Outcome(1) = "err"
    /\ root[2] # 0 /\ ~Completed(2)

\* No callback leaves next() unawaited: a request then has one possible run.
Determined == \A c \in Callbacks : cbKind[c] # "fire"

(* C33: mergeMiddleware(mergeMiddleware(a, b), c)(h) and mergeMiddleware(a, *)
(* mergeMiddleware(b, c))(h) are the same nest of closures a(b(c(h))): on a  *)
(* request each they start a, b, c and h in this order and end with the     *)
(* same events and outcome, and when the run of a request is determined (no *)
(* unawaited next()) the two give the same events in the same order, with   *)
(* the same request fields at each event, and the same response writes.     *)
C33_MergeAssociative ==
    (root[1] # 0 /\ root[2] # 0) =>
        /\ via[1].c # via[2].c
        /\ frames[root[1]].h = frames[root[2]].h
        /\ \A r \in Requests : IsPrefix(Entries(log[r]), << "A", "B", "C", "H" >>)
        /\ (Quiescent(1) /\ Quiescent(2)) =>
              /\ Range(Tags(log[1])) = Range(Tags(log[2]))
              /\ Len(log[1]) = Len(log[2])
              /\ Range(res[1]) = Range(res[2])
              /\ Outcome(1) = Outcome(2)
        /\ Determined =>
              /\ PrefixComparable(log[1], log[2])
              /\ PrefixComparable(res[1], res[2])
              /\ (Quiescent(1) /\ Quiescent(2)) =>
                    /\ log[1] = log[2]
                    /\ res[1] = res[2]

\* The nesting to the right, then the nesting to the left, ran a, b, c and
\* h and back.
C33_Witness ==
    /\ Quiescent(1) /\ Quiescent(2)
    /\ via[1].c = "merge(a,merge(b,c))"
    /\ via[2].c = "merge(merge(a,b),c)"
    /\ cbKind = [A |-> "try", B |-> "ioawait", C |-> "await"]
    /\ hKind["H"] = "async"
    /\ Entries(log[2]) = << "A", "B", "C", "H" >>
    /\ Exits(log[2]) = << "C", "B", "A" >>
    /\ log[1] = log[2]
    /\ res[1] = << [by |-> "H", status |-> 200] >>

\* Request r went to a dispatcher with a method, and the upper-case form of
\* the method is none of GET, POST, PUT, PATCH and DELETE.
Outside(r) ==
    /\ root[r] # 0
    /\ IsDispatcher(root[r])
    /\ ~Not(req[r].method)
    /\ KeyOfRequest(r) = "none"

(* C34: a request that carries a method other than GET, POST, PUT, PATCH    *)
(* and DELETE in any letter case (HEAD, OPTIONS, TRACE, CONNECT) gets the   *)
(* response 405 from the dispatcher and nothing else, whatever              *)
(* registrations were made before it arrived or are made while it is        *)
(* served; the dispatcher calls no handler and no middleware for it.        *)
C34_OtherMethods405 ==
    \A r \in Requests : Outside(r) =>
        /\ FramesOf(r) = {root[r]}
        /\ log[r] = <<>>
        /\ req[r].attrs = {}
        /\ IsPrefix(res[r], << [by |-> DispatcherOf(r), status |-> 405] >>)
        /\ Settled(root[r]) =>
              /\ Outcome(r) = "ok"
              /\ res[r] = << [by |-> DispatcherOf(r), status |-> 405] >>

\* With a handler stored for each of the five methods, a TRACE request was
\* answered 405 and the GET request after it reached the GET handler.
C34_Witness ==
    /\ Outside(1)
    /\ req[1].method = "trace"
    /\ \A k \in MethodKeys : reg["D"][k] # Undefined
    /\ \E j \in DOMAIN made : made[j].op = "delete"
    /\ Quiescent(1) /\ Quiescent(2)
    /\ res[1] = << [by |-> "D", status |-> 405] >>
    /\ HandlerFrames(2, "G") # {}
    /\ res[2] = << [by |-> "G", status |-> 200] >>

\* A registration for the method of request r was made after r arrived.
RegisteredSince(r) ==
    \E j \in DOMAIN made : j > via[r].n /\ made[j].op = KeyOfRequest(r)

(* C35: the dispatcher looks its registry up when a request arrives: the     *)
(* request goes to what the last registration for its method made before    *)
(* its arrival stored, also when the dispatcher has served requests before  *)
(* that registration, and is answered 405 when there was none; the          *)
(* registrations made after its arrival, while it is served, change neither *)
(* the handler it runs nor its answer.                                      *)
C35_ReadsAtDispatch ==
    \A r \in Requests : (LookedUp(r) /\ IsDispatcher(root[r])) =>
        LET d == DispatcherOf(r)
            key == KeyOfRequest(r)
        IN IF RegisteredAt(via[r].n, req[r].method)
           THEN LET h == Handler(LastRegistered(via[r].n, key))
                IN /\ Reached(r) = {Stored(d, key, h)}
                   /\ \A f \in FramesOf(r) : frames[f].h.t = "handler" => frames[f].h = h
                   /\ \A i \in DOMAIN res[r] : res[r][i].by = h.id
                   /\ \A i \in DOMAIN log[r] :
                         log[r][i].who \in {"A", "B", "C"} \/ log[r][i].who = h.id
           ELSE /\ FramesOf(r) = {root[r]}
                /\ res[r] = << [by |-> d, status |-> 405] >>

\* GET was registered with H, the first request arrived and is still
\* waiting in H when GET is registered again with G; the second request
\* has run G to its end.
C35_Witness ==
    /\ made = << [op |-> "get", of |-> 0, m |-> "H"], [op |-> "get", of |-> 0, m |-> "G"] >>
    /\ req[1].method = "GET"
    /\ via[1].n = 1 /\ via[2].n = 2
    /\ RegisteredSince(1)
    /\ ~Quiescent(1)
    /\ \E f \in HandlerFrames(1, "H") : frames[f].st = "io"
    /\ HandlerFrames(1, "G") = {}
    /\ Quiescent(2)
    /\ HandlerFrames(2, "G") # {} /\ HandlerFrames(2, "H") = {}
    /\ res[2] = << [by |-> "G", status |-> 200] >>

\* A registration for key was made with the handler meant for dispatcher d.
MadeFor(d, key) ==
    \E j \in DOMAIN made : made[j].op = key /\ made[j].m = Own(d).id

(* C36: two dispatchers, also two made from the same config, keep separate  *)
(* registries: what a dispatcher has stored for a method is what the        *)
(* registrations called on it stored, wrapped by its own config's           *)
(* middleware, whether they were called one by one or chained on one        *)
(* another's return value, and nothing when none was called on it; a        *)
(* request to a dispatcher runs the handlers registered on that dispatcher  *)
(* only, and is answered 405 when its method was registered on the other    *)
(* dispatcher only.                                                         *)
C36_OwnRegistry ==
    /\ \A d \in TwoDispatchers, key \in MethodKeys :
          reg[d][key] = IF MadeFor(d, key) THEN Stored(d, key, Own(d)) ELSE Undefined
    /\ \A r \in Requests : (root[r] # 0 /\ IsDispatcher(root[r])) =>
          LET d == DispatcherOf(r)
          IN /\ \A f \in FramesOf(r) : frames[f].h.t = "handler" => frames[f].h = Own(d)
             /\ \A i \in DOMAIN res[r] : res[r][i].by \in {d, Own(d).id}
             /\ (LookedUp(r) /\ \A j \in 1..via[r].n :
                                    ~(made[j].op = KeyOfRequest(r) /\ made[j].m = Own(d).id)) =>
                   /\ FramesOf(r) = {root[r]}
                   /\ res[r] = << [by |-> d, status |-> 405] >>

\* e.get(g).post(g) was called, chained, on the second of two dispatchers
\* made with the same config: the first has nothing stored and answers a
\* POST with 405, the second runs g behind the default middleware.
C36_Witness ==
    /\ config["D"] = config["E"] /\ config["D"].default = mB
    /\ made = << [op |-> "get", of |-> 0, m |-> "G"], [op |-> "post", of |-> 0, m |-> "G"] >>
    /\ reg["D"] = NoRegistry
    /\ reg["E"].post = Apply(mB, Handler("G")) /\ reg["E"].get = Apply(mA, Handler("G"))
    /\ req[1].method = "POST" /\ req[2].method = "POST"
    /\ root[1] # 0 /\ root[2] # 0
    /\ DispatcherOf(1) = "D" /\ DispatcherOf(2) = "E"
    /\ via[1].n = 2
    /\ Quiescent(1) /\ Quiescent(2)
    /\ res[1] = << [by |-> "D", status |-> 405] >>
    /\ Tags(log[2]) = << <<"B", "pre">>, <<"G", "run">>, <<"B", "post">> >>
    /\ res[2] = << [by |-> "G", status |-> 200] >>

(* C37: stackMiddleware(m)(h) and chainMiddleware(m)(h), add never called,  *)
(* are the handler m(h) itself, for m a middleware or a merge of two: a     *)
(* request through one of the three and an equal request through another    *)
(* give the same events in the same order with the same request fields at   *)
(* each event, the same response writes and the same outcome, stalls        *)
(* included.                                                                *)
C37_BareCompositeTransparent ==
    (root[1] # 0 /\ root[2] # 0) =>
        /\ via[1].c # via[2].c
        /\ Inside(via[1].c) = Inside(via[2].c)
        /\ frames[root[1]].h = frames[root[2]].h
        /\ PrefixComparable(log[1], log[2])
        /\ PrefixComparable(res[1], res[2])
        /\ (Quiescent(1) /\ Quiescent(2)) =>
              /\ log[1] = log[2]
              /\ res[1] = res[2]
              /\ Outcome(1) = Outcome(2)
              /\ req[1] = req[2]
              /\ Cardinality(FramesOf(1)) = Cardinality(FramesOf(2))

\* A request through a(h) and one through stackMiddleware(a)(h) ran the
\* same way, a waiting before it sets a field and awaits next().
C37_Witness ==
    /\ via[1].c = "a" /\ via[2].c = "stack(a)"
    /\ cbKind["A"] = "ioawait"
    /\ hKind["H"] = "async"
    /\ Quiescent(1) /\ Quiescent(2)
    /\ Tags(log[2]) = << <<"A", "pre">>, <<"H", "run">>, <<"A", "post">> >>
    /\ log[1] = log[2]
    /\ res[2] = << [by |-> "H", status |-> 200] >>
    /\ req[2].attrs = {"A"}

====
